---- MODULE Spec2Model ----
(***************************************************************************)
(* Price resolution and currency normalisation engine of the portfolio     *)
(* manager (app/services.py).                                              *)
(*                                                                         *)
(* Strings are sequences of one-character strings so that str.upper(),     *)
(* str.lower(), str.strip(), endswith() and concatenation are computed.    *)
(* Prices and rates are exact rationals <<numerator, denominator>>; the    *)
(* Python floats they stand for are compared by value (RatEq).             *)
(***************************************************************************)
EXTENDS Integers, Sequences, FiniteSets, TLC

\* ------------------------------------------------------------------
\* Bounds of the model
\* ------------------------------------------------------------------
\* depth of the call stack at which CPython raises RecursionError
RecursionLimit == 6

\* number of threads calling the crypto resolver at once
NThreads == 2

\* how many times the clock advances
MaxTicks == 3

\* ------------------------------------------------------------------
\* Strings
\* ------------------------------------------------------------------
LowerLetters ==
  <<"a","b","c","d","e","f","g","h","i","j","k","l","m",
    "n","o","p","q","r","s","t","u","v","w","x","y","z">>

UpperLetters ==
  <<"A","B","C","D","E","F","G","H","I","J","K","L","M",
    "N","O","P","Q","R","S","T","U","V","W","X","Y","Z">>

UpperC(c) ==
  IF \E i \in 1..26 : LowerLetters[i] = c
  THEN UpperLetters[CHOOSE i \in 1..26 : LowerLetters[i] = c]
  ELSE c

LowerC(c) ==
  IF \E i \in 1..26 : UpperLetters[i] = c
  THEN LowerLetters[CHOOSE i \in 1..26 : UpperLetters[i] = c]
  ELSE c

\* str.upper() / str.lower()
Upper(s) == [i \in 1..Len(s) |-> UpperC(s[i])]

Lower(s) == [i \in 1..Len(s) |-> LowerC(s[i])]

\* " " in s
HasSpace(s) == \E i \in 1..Len(s) : s[i] = " "

\* str.strip(): drop leading and trailing blanks
Strip(s) ==
  IF \A i \in 1..Len(s) : s[i] = " " THEN <<>>
  ELSE LET lo == CHOOSE i \in 1..Len(s) :
                   s[i] # " " /\ \A j \in 1..(i-1) : s[j] = " "
           hi == CHOOSE i \in 1..Len(s) :
                   s[i] # " " /\ \A j \in (i+1)..Len(s) : s[j] = " "
       IN  SubSeq(s, lo, hi)

\* str.endswith(suffix)
EndsWith(s, suffix) ==
  /\ Len(s) >= Len(suffix)
  /\ SubSeq(s, Len(s) - Len(suffix) + 1, Len(s)) = suffix

\* Python's None where a str is expected (distinct from the empty string)
None == <<"None">>

\* Python truthiness of an Optional[str], and `x or y`
Truthy(x) == x # None /\ x # <<>>

Or(x, y) == IF Truthy(x) THEN x ELSE y

\* ------------------------------------------------------------------
\* Numbers: exact rationals <<n, d>>, d > 0
\* ------------------------------------------------------------------
\* Python's None where a float is expected
NoPrice == <<0, 0>>

RatEq(p, q) == p[1] * q[2] = q[1] * p[2]

RatMul(p, q) == <<p[1] * q[1], p[2] * q[2]>>

\* px / 100.0
RatDiv100(p) == <<p[1], p[2] * 100>>

\* ------------------------------------------------------------------
\* Currency codes and tickers
\* ------------------------------------------------------------------
USD == <<"U","S","D">>

GBP == <<"G","B","P">>

EUR == <<"E","U","R">>

JPY == <<"J","P","Y">>

usd == <<"u","s","d">>

\* _YF_FX_TICKER: the direct-pair table
YF_FX_TICKER ==
  [p \in { <<USD, GBP>>, <<GBP, USD>>, <<EUR, GBP>>,
           <<GBP, EUR>>, <<USD, EUR>>, <<EUR, USD>> }
     |-> p[1] \o p[2] \o <<"=","X">>]


\* ------------------------------------------------------------------
\* State
\* ------------------------------------------------------------------
VARIABLES
  req,      \* the request being served ([fn |-> "none"] when idle)
  stack,    \* its call stack, innermost frame last
  ret,      \* value handed back by the callee that returned last
  result,   \* outcome of the request: pending / ok / error
  queried,  \* history: market-data tickers queried for this request
  fxCalls,  \* history: fx_rate calls made by the adapters for this request
  fxLegs,   \* history: rates handed to the outermost triangulation
  obs,      \* history: what fetch_equity_price saw and derived
  quotes,   \* history: the price each queried ticker gave (NoPrice: none)
  attempts, \* history: the price fetches made for stored assets
  assets,   \* table asset
  holdings, \* table holding
  prices,   \* table price
  CG_SYM_TO_ID,         \* _CG_SYM_TO_ID: None or the symbol -> id dict
  CG_NAME_TO_ID,        \* _CG_NAME_TO_ID: None or the name -> id dict
  CG_INDEX_EXPIRES_AT,  \* _CG_INDEX_EXPIRES_AT
  CG_LOCK,              \* _CG_LOCK: the thread holding it, 0 when free
  clock,                \* time.time()
  cg,                   \* per thread: its _cg_normalize_id activation
  rebuilds,             \* history: `now` of every completed index rebuild
  creating              \* per worker: its create_asset activation

dbVars == <<attempts, assets, holdings, prices>>

pVars == <<req, stack, ret, result, queried, fxCalls, fxLegs, obs, quotes,
           dbVars>>

cgVars == <<CG_SYM_TO_ID, CG_NAME_TO_ID, CG_INDEX_EXPIRES_AT, CG_LOCK,
            clock, cg, rebuilds>>

vars == <<pVars, cgVars, creating>>

NoReq == [fn |-> "none"]

\* provenance tags: f"{tag}({ref})", then "+fx" or f"+fx({from}->{to})"
Src(tag, ref, fx, from, to) ==
  [tag |-> tag, ref |-> ref, fx |-> fx, from |-> from, to |-> to]

NoSrc == Src("", <<>>, FALSE, <<>>, <<>>)

\* a returned value that is neither a price nor a string: a bool or a dict
NoData == [kind |-> "none"]

Pending ==
  [kind |-> "pending", val |-> NoPrice, id |-> <<>>, err |-> "",
   src |-> NoSrc, data |-> NoData]

OkFull(v, id, src, data) ==
  [kind |-> "ok", val |-> v, id |-> id, err |-> "", src |-> src,
   data |-> data]

Ok(v, id, src) == OkFull(v, id, src, NoData)

Err(e) ==
  [kind |-> "error", val |-> NoPrice, id |-> <<>>, err |-> e,
   src |-> NoSrc, data |-> NoData]

NoRet == [val |-> NoPrice, id |-> <<>>, src |-> NoSrc, data |-> NoData]

NoObs ==
  [spelled |-> None, reported |-> None, raw |-> NoPrice, px |-> NoPrice,
   native |-> <<>>]

Top == stack[Len(stack)]

Caller == SubSeq(stack, 1, Len(stack) - 1)

Running(fn, pcs) == /\ stack # <<>>
                    /\ Top.fn = fn
                    /\ Top.pc \in pcs

\* what the market-data provider may answer for one quote field
RateQuotes == { <<4, 5>>, <<5, 4>> }

PriceQuotes == { <<150, 1>>, <<30, 1>> }

\* what the simple-price endpoint may answer
CoinQuotes == { <<20000, 1>>, <<30, 1>> }

\* `return` from the innermost frame: a price `v` with its provenance
\* `src`, or a string `id`
ReturnFull(v, id, src, data) ==
  IF Len(stack) = 1
  THEN /\ stack' = <<>>
       /\ result' = OkFull(v, id, src, data)
       /\ ret' = ret
  ELSE /\ stack' = Caller
       /\ ret' = [val |-> v, id |-> id, src |-> src, data |-> data]
       /\ result' = result

ReturnAll(v, id, src) == ReturnFull(v, id, src, NoData)

Return(v, src) == ReturnAll(v, <<>>, src)

ReturnId(id) == ReturnAll(NoPrice, id, NoSrc)

ReturnData(data) == ReturnFull(NoPrice, <<>>, NoSrc, data)

\* the frames that are inside a `try: ... except Exception` block
Handlers ==
  { i \in 1..Len(stack) :
      stack[i].fn \in {"poll_one_asset", "poll_prices"} /\ stack[i].pc = "try" }

\* an exception: the innermost enclosing `except Exception` takes it; when
\* there is none it ends the request
Raise(e) ==
  IF Handlers = {}
  THEN /\ stack' = <<>>
       /\ result' = Err(e)
       /\ ret' = ret
  ELSE LET h == CHOOSE i \in Handlers : \A j \in Handlers : j <= i
       IN  /\ stack' = Append(SubSeq(stack, 1, h - 1),
                              [stack[h] EXCEPT !.pc = "except"])
           /\ result' = result
           /\ ret' = ret

\* a call made by the innermost frame, which moves to `resume`
Call(resume, frame) ==
  IF Len(stack) >= RecursionLimit
  THEN Raise("RecursionError")
  ELSE /\ stack' = Append(Caller, resume) \o <<frame>>
       /\ result' = result
       /\ ret' = ret

\* the caller takes the outcome; the next request may start
Done ==
  /\ req # NoReq
  /\ stack = <<>>
  /\ result.kind # "pending"
  /\ req' = NoReq
  /\ result' = Pending
  /\ ret' = NoRet
  /\ queried' = <<>>
  /\ quotes' = <<>>
  /\ attempts' = <<>>
  /\ fxCalls' = 0
  /\ fxLegs' = <<>>
  /\ obs' = NoObs
  /\ UNCHANGED stack
  /\ UNCHANGED cgVars
  /\ UNCHANGED <<assets, holdings, prices>>
  /\ UNCHANGED creating

\* ------------------------------------------------------------------
\* fx_rate
\* ------------------------------------------------------------------
FxFrame(base, quote) ==
  [fn |-> "fx_rate", pc |-> "start", base |-> base, quote |-> quote,
   via |-> <<>>, r1 |-> NoPrice]

\* mutant: the arguments compared as given, before upper-casing
fx_is_identity_raw(base, quote) == base = quote

\* line 23: base == quote, after both were upper-cased on line 22
fx_is_identity(base, quote) == Upper(base) = Upper(quote)

\* line 28: the intermediate currency of a triangulation
fx_via(base, quote) ==
  IF base # USD /\ quote # USD THEN USD
  ELSE IF base # EUR /\ quote # EUR THEN EUR
  ELSE GBP

\* t.fast_info["last_price"], else the last daily close, else nothing
last_price(fast, hist) == IF fast # NoPrice THEN fast ELSE hist

\* lines 22-29: identity, table lookup, or the first leg of a triangulation
FxEnter ==
  /\ Running("fx_rate", {"start"})
  /\ LET base  == Upper(Top.base)
         quote == Upper(Top.quote)
     IN  IF fx_is_identity(Top.base, Top.quote)
         THEN Return(<<1, 1>>, NoSrc)
         ELSE IF <<base, quote>> \notin DOMAIN YF_FX_TICKER
         THEN LET via == fx_via(base, quote)
              IN  Call([Top EXCEPT !.pc = "leg1", !.base = base,
                                   !.quote = quote, !.via = via],
                       FxFrame(base, via))
         ELSE /\ stack' = Append(Caller, [Top EXCEPT !.pc = "lookup",
                                           !.base = base, !.quote = quote])
              /\ UNCHANGED <<ret, result>>
  /\ UNCHANGED <<req, queried, quotes, fxCalls, fxLegs, obs>>
  /\ UNCHANGED cgVars
  /\ UNCHANGED dbVars
  /\ UNCHANGED creating

\* lines 30-37: the direct quote
FxLookup ==
  /\ Running("fx_rate", {"lookup"})
  /\ \E fast \in RateQuotes \cup {NoPrice}, hist \in RateQuotes \cup {NoPrice} :
       LET price == last_price(fast, hist)
       IN  /\ IF price = NoPrice
              THEN Raise("FX price unavailable")
              ELSE Return(price, NoSrc)
           /\ quotes' = Append(quotes, price)
  /\ queried' = Append(queried, YF_FX_TICKER[<<Top.base, Top.quote>>])
  /\ UNCHANGED <<req, fxCalls, fxLegs, obs>>
  /\ UNCHANGED cgVars
  /\ UNCHANGED dbVars
  /\ UNCHANGED creating

\* line 29: fx_rate(base, via) * fx_rate(via, quote), left to right
FxTriangulate ==
  /\ Running("fx_rate", {"leg1", "leg2"})
  /\ IF Top.pc = "leg1"
     THEN Call([Top EXCEPT !.pc = "leg2", !.r1 = ret.val],
               FxFrame(Top.via, Top.quote))
     ELSE Return(RatMul(Top.r1, ret.val), NoSrc)
  /\ fxLegs' = IF Len(stack) = 1 THEN Append(fxLegs, ret.val) ELSE fxLegs
  /\ UNCHANGED <<req, queried, quotes, fxCalls, obs>>
  /\ UNCHANGED cgVars
  /\ UNCHANGED dbVars
  /\ UNCHANGED creating

\* a request for fx_rate(base, quote)
CcyInputs == {USD, GBP, EUR, JPY, usd}

RequestFx ==
  /\ req = NoReq
  /\ \E base \in CcyInputs, quote \in CcyInputs :
       /\ req' = [fn |-> "fx_rate", base |-> base, quote |-> quote]
       /\ stack' = <<FxFrame(base, quote)>>
  /\ UNCHANGED <<ret, result, queried, quotes, fxCalls, fxLegs, obs>>
  /\ UNCHANGED cgVars
  /\ UNCHANGED dbVars
  /\ UNCHANGED creating

\* ------------------------------------------------------------------
\* fetch_equity_price
\* ------------------------------------------------------------------
GBX == <<"G","B","X">>

GBp == <<"G","B","p">>

gbx == <<"g","b","x">>

\* line 199: the spellings of "pence"
gbx_like ==
  { GBX,
    <<"G","B","P"," ","(","P","E","N","C","E",")">>,
    <<"G","B","P"," ","(","G","B","X",")">>,
    <<"G","B","P","/","G","B","X">>,
    <<"G","B","P"," ","G","B","X">>,
    <<"G","B","P","(","G","B","X",")">>,
    GBp }

\* mutant: the caller's hint preferred to the reported currency
eq_native_ccy_hint_first(reported, hint) ==
  Upper(Or(hint, Or(reported, <<>>)))

\* line 187: (finfo.get("currency") or native_ccy_hint or "").upper()
eq_native_ccy(reported, hint) == Upper(Or(reported, Or(hint, <<>>)))

\* lines 199-202: <<price, native currency>> after the pence normalisation
eq_normalize(px, native_ccy) ==
  IF native_ccy \in gbx_like
  THEN <<RatDiv100(px), GBP>>
  ELSE <<px, native_ccy>>

\* lines 205-206: the currency guessed from the symbol's suffix
eq_guess(symbol, native_ccy) ==
  IF native_ccy = <<>>
  THEN IF EndsWith(Upper(symbol), <<".", "L">>) THEN GBP ELSE USD
  ELSE native_ccy

EqFrame(symbol, target_ccy, native_ccy_hint) ==
  [fn |-> "fetch_equity_price", pc |-> "start", symbol |-> symbol,
   target_ccy |-> target_ccy, native_ccy_hint |-> native_ccy_hint,
   px |-> NoPrice, native_ccy |-> <<>>]

\* lines 184-209: quote, normalisation, and the FX call when one is needed
EquityFetch ==
  /\ Running("fetch_equity_price", {"start"})
  /\ \E reported \in gbx_like \cup {None, <<>>, GBP, USD, gbx},
        fast \in PriceQuotes \cup {NoPrice},
        hist \in PriceQuotes \cup {NoPrice} :
       LET target_ccy == Upper(Top.target_ccy)
           price      == last_price(fast, hist)
           norm       == eq_normalize(price,
                           eq_native_ccy(reported, Top.native_ccy_hint))
           px         == norm[1]
           native_ccy == eq_guess(Top.symbol, norm[2])
       IN  /\ quotes' = Append(quotes, price)
           /\ IF price = NoPrice
              THEN /\ Raise("No price history")
                   /\ UNCHANGED <<fxCalls, obs>>
              ELSE /\ obs' = [spelled |-> Or(reported, Top.native_ccy_hint),
                              reported |-> reported,
                              raw |-> price, px |-> px, native |-> native_ccy]
                   /\ IF native_ccy # target_ccy
                      THEN /\ Call([Top EXCEPT !.pc = "fx", !.px = px,
                                       !.native_ccy = native_ccy,
                                       !.target_ccy = target_ccy],
                                   FxFrame(native_ccy, target_ccy))
                           /\ fxCalls' = fxCalls + 1
                      ELSE /\ Return(px, Src("yfinance", Top.symbol, FALSE,
                                             <<>>, <<>>))
                           /\ fxCalls' = fxCalls
  /\ queried' = Append(queried, Top.symbol)
  /\ UNCHANGED <<req, fxLegs>>
  /\ UNCHANGED cgVars
  /\ UNCHANGED dbVars
  /\ UNCHANGED creating

\* lines 209-210: px *= fx_rate(native, target)
EquityConvert ==
  /\ Running("fetch_equity_price", {"fx"})
  /\ Return(RatMul(Top.px, ret.val),
            Src("yfinance", Top.symbol, TRUE, Top.native_ccy, Top.target_ccy))
  /\ UNCHANGED <<req, queried, quotes, fxCalls, fxLegs, obs>>
  /\ UNCHANGED cgVars
  /\ UNCHANGED dbVars
  /\ UNCHANGED creating

VOD_L == <<"V","O","D",".","L">>

vod_l == <<"v","o","d",".","l">>

AAPL == <<"A","A","P","L">>

gbp == <<"g","b","p">>

RequestEquity ==
  /\ req = NoReq
  /\ \E symbol \in {VOD_L, vod_l, AAPL},
        target_ccy \in {GBP, USD, gbp},
        hint \in {None, GBX, GBp, USD, JPY} :
       /\ req' = [fn |-> "fetch_equity_price", symbol |-> symbol,
                  target_ccy |-> target_ccy, native_ccy_hint |-> hint]
       /\ stack' = <<EqFrame(symbol, target_ccy, hint)>>
  /\ UNCHANGED <<ret, result, queried, quotes, fxCalls, fxLegs, obs>>
  /\ UNCHANGED cgVars
  /\ UNCHANGED dbVars
  /\ UNCHANGED creating

\* ------------------------------------------------------------------
\* fetch_silver_price
\* ------------------------------------------------------------------
XAG == <<"X","A","G">>

XAGUSD_X == <<"X","A","G","U","S","D","=","X">>

SI_F == <<"S","I","=","F">>

\* _yf_last_price: the quote, or None when there is none or the lookup raised
yf_last_price(fast, hist) == last_price(fast, hist)

SilverFrame(target_ccy) ==
  [fn |-> "fetch_silver_price", pc |-> "tier1", target_ccy |-> target_ccy,
   p |-> NoPrice]

\* lines 150-156: XAG<CCY>=X
SilverTier1 ==
  /\ Running("fetch_silver_price", {"tier1"})
  /\ LET target_ccy == Upper(Top.target_ccy)
         direct_tkr == XAG \o target_ccy \o <<"=", "X">>
     IN  /\ \E fast \in PriceQuotes \cup {NoPrice},
               hist \in PriceQuotes \cup {NoPrice} :
              LET p == yf_last_price(fast, hist)
              IN  /\ quotes' = Append(quotes, p)
                  /\ IF p # NoPrice
                     THEN Return(p, Src("yfinance", direct_tkr, FALSE,
                                        <<>>, <<>>))
                     ELSE /\ stack' = Append(Caller,
                                        [Top EXCEPT !.pc = "tier2",
                                                    !.target_ccy = target_ccy])
                          /\ UNCHANGED <<ret, result>>
         /\ queried' = Append(queried, direct_tkr)
  /\ UNCHANGED <<req, fxCalls, fxLegs, obs>>
  /\ UNCHANGED cgVars
  /\ UNCHANGED dbVars
  /\ UNCHANGED creating

\* lines 159-161: XAGUSD=X, then the FX call
SilverTier2 ==
  /\ Running("fetch_silver_price", {"tier2"})
  /\ \E fast \in PriceQuotes \cup {NoPrice},
        hist \in PriceQuotes \cup {NoPrice} :
       LET p_usd == yf_last_price(fast, hist)
       IN  /\ quotes' = Append(quotes, p_usd)
           /\ IF p_usd # NoPrice
              THEN /\ Call([Top EXCEPT !.pc = "tier2fx", !.p = p_usd],
                           FxFrame(USD, Top.target_ccy))
                   /\ fxCalls' = fxCalls + 1
              ELSE /\ stack' = Append(Caller, [Top EXCEPT !.pc = "tier3"])
                   /\ UNCHANGED <<ret, result, fxCalls>>
  /\ queried' = Append(queried, XAGUSD_X)
  /\ UNCHANGED <<req, fxLegs, obs>>
  /\ UNCHANGED cgVars
  /\ UNCHANGED dbVars
  /\ UNCHANGED creating

\* lines 165-171: SI=F, then the FX call; (None, "unavailable") at the end
SilverTier3 ==
  /\ Running("fetch_silver_price", {"tier3"})
  /\ \E fast \in PriceQuotes \cup {NoPrice},
        hist \in PriceQuotes \cup {NoPrice} :
       LET p_fut == yf_last_price(fast, hist)
       IN  /\ quotes' = Append(quotes, p_fut)
           /\ IF p_fut # NoPrice
              THEN /\ Call([Top EXCEPT !.pc = "tier3fx", !.p = p_fut],
                           FxFrame(USD, Top.target_ccy))
                   /\ fxCalls' = fxCalls + 1
              ELSE /\ Return(NoPrice,
                             Src("unavailable", <<>>, FALSE, <<>>, <<>>))
                   /\ fxCalls' = fxCalls
  /\ queried' = Append(queried, SI_F)
  /\ UNCHANGED <<req, fxLegs, obs>>
  /\ UNCHANGED cgVars
  /\ UNCHANGED dbVars
  /\ UNCHANGED creating

\* mutant: every converted price tagged with the futures ticker
silver_tier_ref_last(pc) == SI_F

\* lines 162 and 168: the ticker named in the provenance of a converted price
silver_tier_ref(pc) == IF pc = "tier2fx" THEN XAGUSD_X ELSE SI_F

\* lines 162 and 168: p * rate
SilverConvert ==
  /\ Running("fetch_silver_price", {"tier2fx", "tier3fx"})
  /\ Return(RatMul(Top.p, ret.val),
            Src("yfinance", silver_tier_ref(Top.pc), TRUE, <<>>, <<>>))
  /\ UNCHANGED <<req, queried, quotes, fxCalls, fxLegs, obs>>
  /\ UNCHANGED cgVars
  /\ UNCHANGED dbVars
  /\ UNCHANGED creating

RequestSilver ==
  /\ req = NoReq
  /\ \E target_ccy \in {GBP, USD, gbp, JPY} :
       /\ req' = [fn |-> "fetch_silver_price", target_ccy |-> target_ccy]
       /\ stack' = <<SilverFrame(target_ccy)>>
  /\ UNCHANGED <<ret, result, queried, quotes, fxCalls, fxLegs, obs>>
  /\ UNCHANGED cgVars
  /\ UNCHANGED dbVars
  /\ UNCHANGED creating

\* ------------------------------------------------------------------
\* CoinGecko symbol/name -> id resolver
\* ------------------------------------------------------------------
\* a dict is the set of its <<key, value>> items; an Optional[dict] says
\* whether it is None
NoneDict == [none |-> TRUE, d |-> {}]

SomeDict(d) == [none |-> FALSE, d |-> d]

\* Python truthiness of an Optional[dict]
DictTruthy(o) == ~o.none /\ o.d # {}

\* k in d
DictHas(d, k) == \E e \in d : e[1] = k

\* d[k]
DictGet(d, k) == (CHOOSE e \in d : e[1] = k)[2]

\* _CG_INDEX_TTL_SEC
CG_INDEX_TTL_SEC == 24 * 60 * 60

\* the clock advances in steps of half a TTL
TickSec == CG_INDEX_TTL_SEC \div 2

Coin(id, symbol, name) == [id |-> id, symbol |-> symbol, name |-> name]

\* what /coins/list may answer
CatalogueA ==
  << Coin(<<"e","t","h","e","r","e","u","m">>, <<"e","t","h">>, <<"E","t","h","e","r","e","u","m">>),
     Coin(<<>>, <<"b","t","c">>, <<"B","i","t","c","o","i","n">>),
     Coin(<<"e","t","h","e","r","e","u","m","-","w","o","r","m","h","o","l","e">>, <<"e","t","h">>, <<"E","t","h","e","r","e","u","m">>),
     Coin(<<"m","a","t","i","c","-","n","e","t","w","o","r","k">>, <<"m","a","t","i","c">>, <<"P","o","l","y","g","o","n">>),
     Coin(<<"b","i","t","c","o","i","n","-","c","a","s","h">>, <<"b","c","h">>, <<"B","i","t","c","o","i","n"," ","C","a","s","h">>) >>

CatalogueB ==
  << Coin(<<"b","i","t","c","o","i","n">>, <<"b","t","c">>, <<"B","i","t","c","o","i","n">>),
     Coin(<<"w","r","a","p","p","e","d","-","e","t","h","e","r">>, <<"e","t","h","e","r","e","u","m">>, None),
     Coin(<<"e","t","h","e","r","e","u","m">>, <<"e","t","h">>, <<"E","t","h","e","r","e","u","m">>) >>

Catalogues == {CatalogueA, CatalogueB, <<>>}

\* mutant: a later coin replaces the entry of an earlier one
cg_put_overwrite(map, key, cid) ==
  IF key # <<>>
  THEN { e \in map : e[1] # key } \cup {<<key, cid>>}
  ELSE map

\* lines 73-76: if key and key not in map: map[key] = cid
cg_put(map, key, cid) ==
  IF key # <<>> /\ ~DictHas(map, key)
  THEN map \cup {<<key, cid>>}
  ELSE map

\* lines 67-76: the two dicts built from the first n coins
RECURSIVE cg_build(_, _)
cg_build(coins, n) ==
  IF n = 0 THEN [sym_map |-> {}, name_map |-> {}]
  ELSE LET m    == cg_build(coins, n - 1)
           c    == coins[n]
           cid  == Lower(Or(c.id, <<>>))
           sym  == Upper(Or(c.symbol, <<>>))
           name == Lower(Or(c.name, <<>>))
       IN  IF cid # <<>>
           THEN [sym_map  |-> cg_put(m.sym_map, sym, cid),
                 name_map |-> cg_put(m.name_map, name, cid)]
           ELSE m

\* mutant: the test for spaces left out
cg_looks_like_id_nospace(s) == Lower(s) = s

\* line 88: s.lower() == s and " " not in s
cg_looks_like_id(s) == Lower(s) = s /\ ~HasSpace(s)

\* mutant: the symbol looked up as typed
cg_sym_key_raw(s) == s

\* line 92: sym = s.upper()
cg_sym_key(s) == Upper(s)

\* line 96: name = s.lower()
cg_name_key(s) == Lower(s)

\* mutant: the expiry left out of the test
cg_index_fresh_noexpiry(now) == ~CG_SYM_TO_ID.none

\* line 57: _CG_SYM_TO_ID is not None and now < _CG_INDEX_EXPIRES_AT
cg_index_fresh(now) == ~CG_SYM_TO_ID.none /\ now < CG_INDEX_EXPIRES_AT

\* mutant: the rebuild not guarded by the lock
cg_lock_ignored == TRUE

\* line 56: _CG_LOCK can be taken
cg_lock_free == CG_LOCK = 0

\* mutant: the lock still held after an exception
cg_lock_on_raise_held(t) == t

\* line 56: `with _CG_LOCK` releases the lock when its body raises
cg_lock_on_raise(t) == 0

\* line 78: the expiry set by a rebuild
cg_expiry(now) == now + CG_INDEX_TTL_SEC

\* a read of one of the two globals by a lookup, and the dict it saw
CgRead(map, val) == [map |-> map, val |-> val]

CgIdle ==
  [pc |-> "idle", arg |-> None, s |-> <<>>, now |-> 0, coins |-> <<>>,
   sym_map |-> {}, name_map |-> {}, touched |-> FALSE,
   reads |-> <<>>, kind |-> "", id |-> <<>>, err |-> ""]

CgEnter(arg) == [CgIdle EXCEPT !.pc = "start", !.arg = arg]

CgOk(c, id) == [c EXCEPT !.pc = "done", !.kind = "ok", !.id = id]

CgErr(c, e) == [c EXCEPT !.pc = "done", !.kind = "error", !.err = e]

cgGlobals == <<CG_SYM_TO_ID, CG_NAME_TO_ID, CG_INDEX_EXPIRES_AT, CG_LOCK,
               clock, rebuilds>>

\* lines 84-90 and 55: strip, the empty and the raw-id cases, else time.time()
CgStart(t) ==
  /\ cg[t].pc = "start"
  /\ LET s == Strip(Or(cg[t].arg, <<>>))
     IN  cg' = [cg EXCEPT ![t] =
                  IF s = <<>> THEN CgErr(@, "Empty crypto identifier")
                  ELSE IF cg_looks_like_id(s) THEN CgOk(@, Lower(s))
                  ELSE [@ EXCEPT !.pc = "lock", !.s = s, !.now = clock,
                                 !.touched = TRUE]]
  /\ UNCHANGED cgGlobals
  /\ UNCHANGED pVars
  /\ UNCHANGED creating

\* lines 56-58: take the lock; leave at once when the index is fresh
CgAcquire(t) ==
  /\ cg[t].pc = "lock"
  /\ cg_lock_free
  /\ IF cg_index_fresh(cg[t].now)
     THEN /\ cg' = [cg EXCEPT ![t].pc = "sym_in"]
          /\ CG_LOCK' = 0
     ELSE /\ cg' = [cg EXCEPT ![t].pc = "fetch"]
          /\ CG_LOCK' = t
  /\ UNCHANGED <<CG_SYM_TO_ID, CG_NAME_TO_ID, CG_INDEX_EXPIRES_AT,
                 clock, rebuilds>>
  /\ UNCHANGED pVars
  /\ UNCHANGED creating

\* lines 59-76: fetch the catalogue (HTTP may fail) and build the dicts
CgFetch(t) ==
  /\ cg[t].pc = "fetch"
  /\ \E ok \in BOOLEAN, coins \in Catalogues :
       IF ok
       THEN LET m == cg_build(coins, Len(coins))
            IN  /\ cg' = [cg EXCEPT ![t].pc = "store_sym",
                                    ![t].coins = coins,
                                    ![t].sym_map = m.sym_map,
                                    ![t].name_map = m.name_map]
                /\ CG_LOCK' = CG_LOCK
       ELSE /\ cg' = [cg EXCEPT ![t] = CgErr(@, "HTTPError")]
            /\ CG_LOCK' = cg_lock_on_raise(t)
  /\ UNCHANGED <<CG_SYM_TO_ID, CG_NAME_TO_ID, CG_INDEX_EXPIRES_AT,
                 clock, rebuilds>>
  /\ UNCHANGED pVars
  /\ UNCHANGED creating

\* line 77, first store: _CG_SYM_TO_ID = sym_map
CgStoreSym(t) ==
  /\ cg[t].pc = "store_sym"
  /\ CG_SYM_TO_ID' = SomeDict(cg[t].sym_map)
  /\ cg' = [cg EXCEPT ![t].pc = "store_name"]
  /\ UNCHANGED <<CG_NAME_TO_ID, CG_INDEX_EXPIRES_AT, CG_LOCK, clock,
                 rebuilds>>
  /\ UNCHANGED pVars
  /\ UNCHANGED creating

\* line 77, second store, line 78 and the release of the lock
CgStoreName(t) ==
  /\ cg[t].pc = "store_name"
  /\ CG_NAME_TO_ID' = SomeDict(cg[t].name_map)
  /\ CG_INDEX_EXPIRES_AT' = cg_expiry(cg[t].now)
  /\ CG_LOCK' = 0
  /\ rebuilds' = Append(rebuilds, cg[t].now)
  /\ cg' = [cg EXCEPT ![t].pc = "sym_in"]
  /\ UNCHANGED <<CG_SYM_TO_ID, clock>>
  /\ UNCHANGED pVars
  /\ UNCHANGED creating

\* line 93: _CG_SYM_TO_ID and sym in _CG_SYM_TO_ID
CgSymIn(t) ==
  /\ cg[t].pc = "sym_in"
  /\ cg' = [cg EXCEPT ![t].pc =
              IF /\ DictTruthy(CG_SYM_TO_ID)
                 /\ DictHas(CG_SYM_TO_ID.d, cg_sym_key(cg[t].s))
              THEN "sym_get" ELSE "name_in",
                      ![t].reads = Append(@, CgRead("sym", CG_SYM_TO_ID))]
  /\ UNCHANGED cgGlobals
  /\ UNCHANGED pVars
  /\ UNCHANGED creating

\* line 94: return _CG_SYM_TO_ID[sym], the global read again
CgSymGet(t) ==
  /\ cg[t].pc = "sym_get"
  /\ cg' = [cg EXCEPT ![t] =
              LET c == [@ EXCEPT !.reads =
                          Append(@, CgRead("sym", CG_SYM_TO_ID))]
              IN  IF DictHas(CG_SYM_TO_ID.d, cg_sym_key(cg[t].s))
                  THEN CgOk(c, DictGet(CG_SYM_TO_ID.d, cg_sym_key(cg[t].s)))
                  ELSE CgErr(c, "KeyError")]
  /\ UNCHANGED cgGlobals
  /\ UNCHANGED pVars
  /\ UNCHANGED creating

\* lines 97 and 99: _CG_NAME_TO_ID and name in _CG_NAME_TO_ID, else unknown
CgNameIn(t) ==
  /\ cg[t].pc = "name_in"
  /\ cg' = [cg EXCEPT ![t] =
              LET c == [@ EXCEPT !.reads =
                          Append(@, CgRead("name", CG_NAME_TO_ID))]
              IN  IF /\ DictTruthy(CG_NAME_TO_ID)
                     /\ DictHas(CG_NAME_TO_ID.d, cg_name_key(cg[t].s))
                  THEN [c EXCEPT !.pc = "name_get"]
                  ELSE CgErr(c, "Unknown crypto symbol/name/id")]
  /\ UNCHANGED cgGlobals
  /\ UNCHANGED pVars
  /\ UNCHANGED creating

\* line 98: return _CG_NAME_TO_ID[name], the global read again
CgNameGet(t) ==
  /\ cg[t].pc = "name_get"
  /\ cg' = [cg EXCEPT ![t] =
              LET c == [@ EXCEPT !.reads =
                          Append(@, CgRead("name", CG_NAME_TO_ID))]
              IN  IF DictHas(CG_NAME_TO_ID.d, cg_name_key(cg[t].s))
                  THEN CgOk(c, DictGet(CG_NAME_TO_ID.d, cg_name_key(cg[t].s)))
                  ELSE CgErr(c, "KeyError")]
  /\ UNCHANGED cgGlobals
  /\ UNCHANGED pVars
  /\ UNCHANGED creating

\* time passes
Tick ==
  /\ clock < MaxTicks * TickSec
  /\ clock' = clock + TickSec
  /\ UNCHANGED <<CG_SYM_TO_ID, CG_NAME_TO_ID, CG_INDEX_EXPIRES_AT, CG_LOCK,
                 cg, rebuilds>>
  /\ UNCHANGED pVars
  /\ UNCHANGED creating

\* --- the resolver called by the request thread -----------------------
Main == CHOOSE t \in 1..NThreads : \A u \in 1..NThreads : t <= u

NormFrame == [fn |-> "cg_normalize_id", pc |-> "run"]

\* _cg_normalize_id returns to its caller, or raises
NormalizeReturn ==
  /\ Running("cg_normalize_id", {"run"})
  /\ cg[Main].pc = "done"
  /\ IF cg[Main].kind = "ok"
     THEN ReturnId(cg[Main].id)
     ELSE Raise(cg[Main].err)
  /\ cg' = [cg EXCEPT ![Main] = CgIdle]
  /\ UNCHANGED <<req, queried, quotes, fxCalls, fxLegs, obs>>
  /\ UNCHANGED cgGlobals
  /\ UNCHANGED dbVars
  /\ UNCHANGED creating

NormInputs ==
  { None, <<" "," ">>, <<"E","T","H">>, <<" ","E","t","h"," ">>, <<"e","t","h">>, <<"E","t","h","e","r","e","u","m">>, <<"e","t","h","e","r","e","u","m">>,
    <<"P","o","l","y","g","o","n">>, <<"p","o","l","y","g","o","n">>, <<"D","O","G","E">>, <<"b","i","t","c","o","i","n"," ","c","a","s","h">> }

RequestNormalize ==
  /\ req = NoReq
  /\ \E arg \in NormInputs :
       /\ req' = [fn |-> "cg_normalize_id", arg |-> arg]
       /\ cg' = [cg EXCEPT ![Main] = CgEnter(arg)]
  /\ stack' = <<NormFrame>>
  /\ UNCHANGED <<ret, result, queried, quotes, fxCalls, fxLegs, obs>>
  /\ UNCHANGED cgGlobals
  /\ UNCHANGED dbVars
  /\ UNCHANGED creating

\* --- concurrent callers ------------------------------------------------
Threads == 1..NThreads

CgInputs == { <<"E","T","H">>, <<"P","o","l","y","g","o","n">> }

CgRequest(t) ==
  /\ cg[t].pc = "idle"
  /\ \E arg \in CgInputs : cg' = [cg EXCEPT ![t] = CgEnter(arg)]
  /\ UNCHANGED cgGlobals
  /\ UNCHANGED pVars
  /\ UNCHANGED creating

CgFinish(t) ==
  /\ cg[t].pc = "done"
  /\ cg' = [cg EXCEPT ![t] = CgIdle]
  /\ UNCHANGED cgGlobals
  /\ UNCHANGED pVars
  /\ UNCHANGED creating

\* ------------------------------------------------------------------
\* fetch_crypto_price_by_id
\* ------------------------------------------------------------------
CryptoFrame(cg_id, target_ccy) ==
  [fn |-> "fetch_crypto_price_by_id", pc |-> "start", cg_id |-> cg_id,
   target_ccy |-> target_ccy]

\* line 110: normalized = _cg_normalize_id(cg_id)
CryptoNormalize ==
  /\ Running("fetch_crypto_price_by_id", {"start"})
  /\ Call([Top EXCEPT !.pc = "price"], NormFrame)
  /\ cg' = IF Len(stack) >= RecursionLimit THEN cg
           ELSE [cg EXCEPT ![Main] = CgEnter(Top.cg_id)]
  /\ UNCHANGED <<req, queried, quotes, fxCalls, fxLegs, obs>>
  /\ UNCHANGED cgGlobals
  /\ UNCHANGED dbVars
  /\ UNCHANGED creating

\* lines 111-115: the simple-price endpoint (HTTP may fail, the price may
\* be absent from the answer)
CryptoPrice ==
  /\ Running("fetch_crypto_price_by_id", {"price"})
  /\ \E ok \in BOOLEAN, px \in CoinQuotes \cup {NoPrice} :
       /\ quotes' = Append(quotes, IF ok THEN px ELSE NoPrice)
       /\ IF ~ok THEN Raise("HTTPError")
          ELSE IF px = NoPrice THEN Raise("Price unavailable")
          ELSE Return(px, Src("coingecko", ret.id, FALSE, <<>>,
                              Upper(Top.target_ccy)))
  /\ queried' = Append(queried, ret.id)
  /\ UNCHANGED <<req, fxCalls, fxLegs, obs>>
  /\ UNCHANGED cgVars
  /\ UNCHANGED dbVars
  /\ UNCHANGED creating

\* ------------------------------------------------------------------
\* fetch_spot_by_source
\* ------------------------------------------------------------------
SpotFrame(a, target_ccy) ==
  [fn |-> "fetch_spot_by_source", pc |-> "start",
   asset_type |-> a.asset_type, source |-> a.source,
   source_ref |-> a.source_ref, target_ccy |-> target_ccy,
   native_ccy_hint |-> a.native_ccy_hint, p |-> NoPrice, native |-> <<>>]

\* mutant: the provider tag and the asset type compared as given
spot_route_raw(source, asset_type) ==
  LET src == Or(source, <<>>)
      typ == Or(asset_type, <<>>)
  IN  IF src = <<"c","o","i","n","g","e","c","k","o">> THEN "crypto"
      ELSE IF src = <<"y","f","i","n","a","n","c","e">>
      THEN IF typ = <<"m","e","t","a","l">> THEN "metal" ELSE "equity"
      ELSE IF src = <<"m","a","n","u","a","l">> THEN "manual"
      ELSE "unsupported"

\* lines 224-225, 228, 234, 236, 253: the branch taken for a provider tag
\* and an asset type
spot_route(source, asset_type) ==
  LET src == Lower(Or(source, <<>>))
      typ == Lower(Or(asset_type, <<>>))
  IN  IF src = <<"c","o","i","n","g","e","c","k","o">> THEN "crypto"
      ELSE IF src = <<"y","f","i","n","a","n","c","e">>
      THEN IF typ = <<"m","e","t","a","l">> THEN "metal" ELSE "equity"
      ELSE IF src = <<"m","a","n","u","a","l">> THEN "manual"
      ELSE "unsupported"

\* lines 224-257: the dispatch on the provider tag and the asset type
SpotDispatch ==
  /\ Running("fetch_spot_by_source", {"start"})
  /\ LET route      == spot_route(Top.source, Top.asset_type)
         target_ccy == Upper(Top.target_ccy)
         me         == [Top EXCEPT !.target_ccy = target_ccy]
     IN  IF route = "crypto"
         THEN IF ~Truthy(Top.source_ref)
              THEN /\ Raise("coingecko source requires source_ref")
                   /\ UNCHANGED fxCalls
              ELSE /\ Call([me EXCEPT !.pc = "adapter"],
                           CryptoFrame(Top.source_ref, target_ccy))
                   /\ UNCHANGED fxCalls
         ELSE IF route \in {"metal", "equity"}
         THEN IF route = "metal"
              THEN IF Truthy(Top.source_ref) /\ Upper(Top.source_ref) # XAG
                   THEN /\ stack' = Append(Caller, [me EXCEPT !.pc = "ref"])
                        /\ UNCHANGED <<ret, result, fxCalls>>
                   ELSE /\ Call([me EXCEPT !.pc = "silver"],
                                SilverFrame(target_ccy))
                        /\ UNCHANGED fxCalls
              ELSE /\ Call([me EXCEPT !.pc = "adapter"],
                           EqFrame(Or(Top.source_ref, <<>>), target_ccy,
                                   Top.native_ccy_hint))
                   /\ UNCHANGED fxCalls
         ELSE IF route = "manual"
         THEN /\ Raise("Manual source not implemented yet")
              /\ UNCHANGED fxCalls
         ELSE /\ Raise("Unsupported source")
              /\ UNCHANGED fxCalls
  /\ UNCHANGED <<req, queried, quotes, fxLegs, obs>>
  /\ UNCHANGED cgVars
  /\ UNCHANGED dbVars
  /\ UNCHANGED creating

\* mutant: no currency assumed when the hint is missing
metal_native_hint_only(native_ccy_hint) == Upper(Or(native_ccy_hint, <<>>))

\* line 240: native = (native_ccy_hint or "USD").upper()
metal_native(native_ccy_hint) == Upper(Or(native_ccy_hint, USD))

\* lines 238-245: the explicit metal reference, else the silver chain
SpotMetalRef ==
  /\ Running("fetch_spot_by_source", {"ref"})
  /\ \E fast \in PriceQuotes \cup {NoPrice},
        hist \in PriceQuotes \cup {NoPrice} :
       LET p      == yf_last_price(fast, hist)
           native == metal_native(Top.native_ccy_hint)
       IN  /\ quotes' = Append(quotes, p)
           /\ IF p # NoPrice
              THEN IF native # Top.target_ccy
                   THEN /\ Call([Top EXCEPT !.pc = "fx", !.p = p,
                                            !.native = native],
                                FxFrame(native, Top.target_ccy))
                        /\ fxCalls' = fxCalls + 1
                   ELSE /\ Return(p, Src("yfinance", Top.source_ref, FALSE,
                                         <<>>, <<>>))
                        /\ UNCHANGED fxCalls
              ELSE /\ Call([Top EXCEPT !.pc = "silver"],
                           SilverFrame(Top.target_ccy))
                   /\ UNCHANGED fxCalls
  /\ queried' = Append(queried, Top.source_ref)
  /\ UNCHANGED <<req, fxLegs, obs>>
  /\ UNCHANGED cgVars
  /\ UNCHANGED dbVars
  /\ UNCHANGED creating

\* lines 242-243: p *= fx_rate(native, target_ccy)
SpotMetalConvert ==
  /\ Running("fetch_spot_by_source", {"fx"})
  /\ Return(RatMul(Top.p, ret.val),
            Src("yfinance", Top.source_ref, TRUE, Top.native, Top.target_ccy))
  /\ UNCHANGED <<req, queried, quotes, fxCalls, fxLegs, obs>>
  /\ UNCHANGED cgVars
  /\ UNCHANGED dbVars
  /\ UNCHANGED creating

\* lines 245-248: the silver chain's answer, or "Silver price unavailable"
SpotSilver ==
  /\ Running("fetch_spot_by_source", {"silver"})
  /\ IF ret.val = NoPrice
     THEN Raise("Silver price unavailable")
     ELSE Return(ret.val, ret.src)
  /\ UNCHANGED <<req, queried, quotes, fxCalls, fxLegs, obs>>
  /\ UNCHANGED cgVars
  /\ UNCHANGED dbVars
  /\ UNCHANGED creating

\* lines 231-232 and 251: the adapter's answer is handed on
SpotReturn ==
  /\ Running("fetch_spot_by_source", {"adapter"})
  /\ Return(ret.val, ret.src)
  /\ UNCHANGED <<req, queried, quotes, fxCalls, fxLegs, obs>>
  /\ UNCHANGED cgVars
  /\ UNCHANGED dbVars
  /\ UNCHANGED creating

Asset(asset_type, source, source_ref, native_ccy_hint) ==
  [asset_type |-> asset_type, source |-> source, source_ref |-> source_ref,
   native_ccy_hint |-> native_ccy_hint]

SpotInputs ==
  { Asset(<<"c","r","y","p","t","o">>, <<"c","o","i","n","g","e","c","k","o">>, <<"b","i","t","c","o","i","n">>, None),
    Asset(<<"c","r","y","p","t","o">>, <<"C","o","i","n","G","e","c","k","o">>, <<"E","T","H">>, None),
    Asset(<<"c","r","y","p","t","o">>, <<"c","o","i","n","g","e","c","k","o">>, <<>>, None),
    Asset(<<"m","e","t","a","l">>, <<"y","f","i","n","a","n","c","e">>, XAGUSD_X, USD),
    Asset(<<"m","e","t","a","l">>, <<"y","f","i","n","a","n","c","e">>, XAG, None),
    Asset(<<"M","e","t","a","l">>, <<"y","f","i","n","a","n","c","e">>, <<"x","a","g">>, None),
    Asset(<<"m","e","t","a","l">>, <<"y","f","i","n","a","n","c","e">>, <<>>, None),
    Asset(<<"m","e","t","a","l">>, <<"y","f","i","n","a","n","c","e">>, <<"G","C","=","F">>, None),
    Asset(<<"e","q","u","i","t","y">>, <<"y","f","i","n","a","n","c","e">>, AAPL, USD),
    Asset(<<"e","q","u","i","t","y">>, <<"y","f","i","n","a","n","c","e">>, VOD_L, GBX),
    Asset(<<"e","q","u","i","t","y">>, <<"y","f","i","n","a","n","c","e">>, None, None),
    Asset(<<"m","a","n","u","a","l">>, <<"m","a","n","u","a","l">>, <<>>, None),
    Asset(<<"e","q","u","i","t","y">>, <<"s","t","o","o","q">>, AAPL, None),
    Asset(None, None, None, None) }

RequestSpot ==
  /\ req = NoReq
  /\ \E a \in SpotInputs, target_ccy \in {GBP, USD} :
       /\ req' = [fn |-> "fetch_spot_by_source", asset |-> a,
                  target_ccy |-> target_ccy]
       /\ stack' = <<SpotFrame(a, target_ccy)>>
  /\ UNCHANGED <<ret, result, queried, quotes, fxCalls, fxLegs, obs>>
  /\ UNCHANGED cgVars
  /\ UNCHANGED dbVars
  /\ UNCHANGED creating

\* ------------------------------------------------------------------
\* app.models: the tables, polling and the portfolio snapshot
\* ------------------------------------------------------------------
\* config.BASE_CCY
BASE_CCY == GBP

\* user_id=None: the snapshot is not scoped to a user; <<u>> is user u
NoUser == <<>>

\* rationals with positive denominators
RatAdd(p, q) == <<p[1] * q[2] + q[1] * p[2], p[2] * q[2]>>

RatGeq(p, q) == p[1] * q[2] >= q[1] * p[2]

AssetRow(id, symbol, type, source, source_ref, native_ccy) ==
  [id |-> id, symbol |-> symbol, type |-> type, source |-> source,
   source_ref |-> source_ref, native_ccy |-> native_ccy]

HoldingRow(id, account, asset_id, qty, user_id) ==
  [id |-> id, account |-> account, asset_id |-> asset_id, qty |-> qty,
   user_id |-> user_id]

PriceRow(asset_id, ts, price, source, base_ccy) ==
  [asset_id |-> asset_id, ts |-> ts, price |-> price, source |-> source,
   base_ccy |-> base_ccy]

\* the assets that were created before start-up
StoredAssets ==
  << AssetRow(1, <<"B","T","C">>, <<"c","r","y","p","t","o">>, <<"c","o","i","n","g","e","c","k","o">>, <<"b","i","t","c","o","i","n">>, None),
     AssetRow(2, <<"X","M","R">>, <<"c","r","y","p","t","o">>, <<"c","o","i","n","g","e","c","k","o">>, <<"m","o","n","e","r","o">>, None),
     AssetRow(3, <<"G","O","L","D">>, <<"m","a","n","u","a","l">>, <<"m","a","n","u","a","l">>, <<>>, None) >>

\* the holdings that were created before start-up, of users 1 and 2
StoredHoldings ==
  << HoldingRow(1, <<"D","e","f","a","u","l","t">>, 1, <<1, 2>>, 1),
     HoldingRow(2, <<"D","e","f","a","u","l","t">>, 2, <<2, 1>>, 1),
     HoldingRow(3, <<"D","e","f","a","u","l","t">>, 3, <<1, 1>>, 1),
     HoldingRow(4, <<"C","o","l","d">>, 1, <<2, 1>>, 2),
     HoldingRow(5, <<"H","o","t">>, 1, <<2, 1>>, 2) >>

\* the histories of one fetch_spot_by_source call are dropped when the
\* caller has its outcome
ForgetFetch ==
  /\ queried' = <<>>
  /\ quotes' = <<>>
  /\ fxCalls' = 0
  /\ fxLegs' = <<>>
  /\ obs' = NoObs

\* the rows of `price` a request may find before it stops being served
MaxPrices == 3

\* --- latest_price_for_asset ---------------------------------------------
\* mutant: the currency of the row ignored
price_matches_any_ccy(row, asset_id, base_ccy) == row.asset_id = asset_id

\* line 213: Price.asset_id == asset_id, Price.base_ccy == base_ccy
price_matches(row, asset_id, base_ccy) ==
  row.asset_id = asset_id /\ row.base_ccy = base_ccy

\* lines 211-216: the rows .order_by(Price.ts.desc()).limit(1) may give:
\* those of the greatest ts among the matching rows
latest_rows(asset_id, base_ccy) ==
  { k \in 1..Len(prices) :
      /\ price_matches(prices[k], asset_id, base_ccy)
      /\ \A j \in 1..Len(prices) :
           price_matches(prices[j], asset_id, base_ccy)
             => prices[j].ts <= prices[k].ts }

\* --- poll_one_asset -------------------------------------------------------
PollOneFrame(asset_id, base_ccy) ==
  [fn |-> "poll_one_asset", pc |-> "start", asset_id |-> asset_id,
   base_ccy |-> base_ccy]

BoolData(b) == [kind |-> "bool", b |-> b]

\* lines 151-157: s.get(Asset, asset_id), then the fetch inside `try`
PollOneFetch ==
  /\ Running("poll_one_asset", {"start"})
  /\ LET found == { i \in 1..Len(assets) : assets[i].id = Top.asset_id }
     IN  IF found = {}
         THEN ReturnData(BoolData(FALSE))
         ELSE LET asset == assets[CHOOSE i \in found : TRUE]
              IN  Call([Top EXCEPT !.pc = "try"],
                       SpotFrame(Asset(asset.type, asset.source,
                                       asset.source_ref, asset.native_ccy),
                                 Top.base_ccy))
  /\ UNCHANGED <<req, queried, quotes, fxCalls, fxLegs, obs>>
  /\ UNCHANGED dbVars
  /\ UNCHANGED cgVars
  /\ UNCHANGED creating

\* lines 162-172: the row is added and committed
PollOneStore ==
  /\ Running("poll_one_asset", {"try"})
  /\ prices' = Append(prices, PriceRow(Top.asset_id, clock, ret.val, ret.src,
                                       Top.base_ccy))
  /\ attempts' = Append(attempts, [asset_id |-> Top.asset_id, ok |-> TRUE])
  /\ ReturnData(BoolData(TRUE))
  /\ ForgetFetch
  /\ UNCHANGED <<req, assets, holdings>>
  /\ UNCHANGED cgVars
  /\ UNCHANGED creating

\* lines 158-160: except Exception: return False
PollOneExcept ==
  /\ Running("poll_one_asset", {"except"})
  /\ attempts' = Append(attempts, [asset_id |-> Top.asset_id, ok |-> FALSE])
  /\ ReturnData(BoolData(FALSE))
  /\ ForgetFetch
  /\ UNCHANGED <<req, assets, holdings, prices>>
  /\ UNCHANGED cgVars
  /\ UNCHANGED creating

\* poll_one_asset(engine, asset.id, BASE_CCY), as the routes call it
RequestPollOne ==
  /\ req = NoReq
  /\ Len(prices) < MaxPrices
  /\ \E asset_id \in 1..(Len(assets) + 1) :
       /\ req' = [fn |-> "poll_one_asset", asset_id |-> asset_id,
                  base_ccy |-> BASE_CCY, n0 |-> Len(prices)]
       /\ stack' = <<PollOneFrame(asset_id, BASE_CCY)>>
  /\ UNCHANGED <<ret, result, queried, quotes, fxCalls, fxLegs, obs>>
  /\ UNCHANGED dbVars
  /\ UNCHANGED cgVars
  /\ UNCHANGED creating

\* --- poll_prices ----------------------------------------------------------
PollFrame(base_ccy) ==
  [fn |-> "poll_prices", pc |-> "start", base_ccy |-> base_ccy,
   assets |-> <<>>, i |-> 1, ok |-> 0, fail |-> 0]

\* lines 180-183: select(Asset), in the order the database gives the rows
PollList ==
  /\ Running("poll_prices", {"start"})
  /\ \E p \in Permutations(1..Len(assets)) :
       stack' = Append(Caller,
                  [Top EXCEPT !.pc = "loop",
                              !.assets = [i \in 1..Len(assets) |->
                                            assets[p[i]]]])
  /\ UNCHANGED <<req, ret, result, queried, quotes, fxCalls, fxLegs, obs>>
  /\ UNCHANGED dbVars
  /\ UNCHANGED cgVars
  /\ UNCHANGED creating

\* lines 184-186 and 202: the next asset's fetch inside `try`, or the counts
PollFetch ==
  /\ Running("poll_prices", {"loop"})
  /\ IF Top.i > Len(Top.assets)
     THEN ReturnData([kind |-> "poll", ok |-> Top.ok, fail |-> Top.fail,
                      base_ccy |-> Top.base_ccy])
     ELSE LET a == Top.assets[Top.i]
          IN  Call([Top EXCEPT !.pc = "try"],
                   SpotFrame(Asset(a.type, a.source, a.source_ref,
                                   a.native_ccy),
                             Top.base_ccy))
  /\ UNCHANGED <<req, queried, quotes, fxCalls, fxLegs, obs>>
  /\ UNCHANGED dbVars
  /\ UNCHANGED cgVars
  /\ UNCHANGED creating

\* lines 187-198: the row is added and committed; ok += 1
PollStore ==
  /\ Running("poll_prices", {"try"})
  /\ LET a == Top.assets[Top.i]
     IN  /\ prices' = Append(prices, PriceRow(a.id, clock, ret.val, ret.src,
                                              Top.base_ccy))
         /\ attempts' = Append(attempts, [asset_id |-> a.id, ok |-> TRUE])
  /\ stack' = Append(Caller, [Top EXCEPT !.pc = "loop", !.i = @ + 1,
                                         !.ok = @ + 1])
  /\ ForgetFetch
  /\ UNCHANGED <<req, ret, result, assets, holdings>>
  /\ UNCHANGED cgVars
  /\ UNCHANGED creating

\* mutant: the first failure ends the cycle
after_failure_abort(f) ==
  [f EXCEPT !.pc = "loop", !.i = Len(f.assets) + 1, !.fail = @ + 1]

\* lines 184 and 201: fail += 1, and the loop goes on with the next asset
after_failure(f) == [f EXCEPT !.pc = "loop", !.i = @ + 1, !.fail = @ + 1]

\* lines 199-201: except Exception: fail += 1
PollExcept ==
  /\ Running("poll_prices", {"except"})
  /\ attempts' = Append(attempts, [asset_id |-> Top.assets[Top.i].id,
                                   ok |-> FALSE])
  /\ stack' = Append(Caller, after_failure(Top))
  /\ ForgetFetch
  /\ UNCHANGED <<req, ret, result, assets, holdings, prices>>
  /\ UNCHANGED cgVars
  /\ UNCHANGED creating

\* poll_prices(engine), as start-up and the scheduler call it
RequestPollPrices ==
  /\ req = NoReq
  /\ Len(prices) < MaxPrices
  /\ req' = [fn |-> "poll_prices", base_ccy |-> BASE_CCY, n0 |-> Len(prices)]
  /\ stack' = <<PollFrame(BASE_CCY)>>
  /\ UNCHANGED <<ret, result, queried, quotes, fxCalls, fxLegs, obs>>
  /\ UNCHANGED dbVars
  /\ UNCHANGED cgVars
  /\ UNCHANGED creating

\* --- portfolio_overview ---------------------------------------------------
OverviewFrame(base_ccy, user_id) ==
  [fn |-> "portfolio_overview", pc |-> "start", base_ccy |-> base_ccy,
   user_id |-> user_id, base |-> <<>>, holds |-> <<>>, am |-> {},
   i |-> 1, items |-> <<>>, total |-> <<0, 1>>]

OverviewData(base, total, items) ==
  [kind |-> "overview", base_ccy |-> base, total |-> total, items |-> items]

\* mutant: every holding is gathered, whoever owns it
in_scope_all(h, user_id) == TRUE

\* lines 238-240: select(Holding), where(Holding.user_id == user_id) when a
\* user is given
in_scope(h, user_id) == user_id # NoUser => h.user_id = user_id[1]

\* line 264: value = float(h.qty) * float(last)
line_value(qty, last) == RatMul(qty, last)

\* lines 264-276: the line of holding h of asset a at price last
Line(h, a, last) ==
  [symbol |-> a.symbol, type |-> a.type, qty |-> h.qty, last_px |-> last,
   value |-> line_value(h.qty, last), account |-> h.account,
   holding_id |-> h.id]

\* mutant: a line goes before the lines of equal value
sort_rank_before_ties(rest, x) ==
  Cardinality({ j \in 1..Len(rest) : ~RatGeq(x.value, rest[j].value) })

\* line 279: where a line goes among the lines retrieved before it: after
\* those of greater or equal value (list.sort is stable, also with reverse)
sort_rank(rest, x) ==
  Cardinality({ j \in 1..Len(rest) : RatGeq(rest[j].value, x.value) })

\* line 279: items.sort(key=value, reverse=True), a stable sort
RECURSIVE sort_by_value_desc(_)
sort_by_value_desc(items) ==
  IF items = <<>> THEN <<>>
  ELSE LET n    == Len(items)
           x    == items[n]
           rest == sort_by_value_desc(SubSeq(items, 1, n - 1))
           k    == sort_rank(rest, x)
       IN  SubSeq(rest, 1, k) \o <<x>> \o SubSeq(rest, k + 1, Len(rest))

\* lines 232-248: the base currency, the holdings in scope and their assets
OverviewGather ==
  /\ Running("portfolio_overview", {"start"})
  /\ LET base  == Upper(Or(Top.base_ccy, BASE_CCY))
         holds == SelectSeq(holdings, LAMBDA h : in_scope(h, Top.user_id))
         ids   == { holds[i].asset_id : i \in 1..Len(holds) }
         am    == { assets[i] : i \in { j \in 1..Len(assets) :
                                          assets[j].id \in ids } }
     IN  IF holds = <<>>
         THEN ReturnData(OverviewData(base, <<0, 1>>, <<>>))
         ELSE /\ stack' = Append(Caller,
                            [Top EXCEPT !.pc = "loop", !.base = base,
                                        !.holds = holds, !.am = am])
              /\ UNCHANGED <<ret, result>>
  /\ UNCHANGED <<req, queried, quotes, fxCalls, fxLegs, obs>>
  /\ UNCHANGED dbVars
  /\ UNCHANGED cgVars
  /\ UNCHANGED creating

\* the frame after holding i gave a line at price last
WithLine(f, a, last) ==
  LET ln == Line(f.holds[f.i], a, last)
  IN  [f EXCEPT !.pc = "loop", !.i = @ + 1,
                !.total = RatAdd(@, ln.value),
                !.items = Append(@, ln)]

\* the frame after holding i was skipped
Skipped(f) == [f EXCEPT !.pc = "loop", !.i = @ + 1]

\* lines 251-258 and 264-276: the stored price of the next holding's asset,
\* else the on-demand poll
OverviewItem ==
  /\ Running("portfolio_overview", {"loop"})
  /\ Top.i <= Len(Top.holds)
  /\ LET h     == Top.holds[Top.i]
         found == { a \in Top.am : a.id = h.asset_id }
     IN  IF found = {}
         THEN /\ stack' = Append(Caller, Skipped(Top))
              /\ UNCHANGED <<ret, result>>
         ELSE LET a == CHOOSE x \in found : TRUE
              IN  IF latest_rows(a.id, Top.base) # {}
                  THEN /\ \E k \in latest_rows(a.id, Top.base) :
                            stack' = Append(Caller,
                                       WithLine(Top, a, prices[k].price))
                       /\ UNCHANGED <<ret, result>>
                  ELSE Call([Top EXCEPT !.pc = "polled"],
                            PollOneFrame(a.id, Top.base))
  /\ UNCHANGED <<req, queried, quotes, fxCalls, fxLegs, obs>>
  /\ UNCHANGED dbVars
  /\ UNCHANGED cgVars
  /\ UNCHANGED creating

\* lines 258-276: after the on-demand poll the stored price is read again
OverviewPolled ==
  /\ Running("portfolio_overview", {"polled"})
  /\ LET h == Top.holds[Top.i]
         a == CHOOSE x \in Top.am : x.id = h.asset_id
     IN  IF ret.data.b /\ latest_rows(a.id, Top.base) # {}
         THEN \E k \in latest_rows(a.id, Top.base) :
                stack' = Append(Caller, WithLine(Top, a, prices[k].price))
         ELSE stack' = Append(Caller, Skipped(Top))
  /\ UNCHANGED <<req, ret, result, queried, quotes, fxCalls, fxLegs, obs>>
  /\ UNCHANGED dbVars
  /\ UNCHANGED cgVars
  /\ UNCHANGED creating

\* lines 279-280: the lines sorted by value, largest first
OverviewReturn ==
  /\ Running("portfolio_overview", {"loop"})
  /\ Top.i > Len(Top.holds)
  /\ ReturnData(OverviewData(Top.base, Top.total,
                             sort_by_value_desc(Top.items)))
  /\ UNCHANGED <<req, queried, quotes, fxCalls, fxLegs, obs>>
  /\ UNCHANGED dbVars
  /\ UNCHANGED cgVars
  /\ UNCHANGED creating

\* the users that ask for their snapshot; user 0 has no holdings
Users == {0, 1, 2}

\* portfolio_overview(engine, base_ccy, user_id)
RequestOverview ==
  /\ req = NoReq
  /\ Len(prices) < MaxPrices
  /\ \E base_ccy \in {None, <<"u","s","d">>},
        user_id \in { <<u>> : u \in Users } \cup {NoUser} :
       /\ req' = [fn |-> "portfolio_overview", base_ccy |-> base_ccy,
                  user_id |-> user_id, n0 |-> Len(prices)]
       /\ stack' = <<OverviewFrame(base_ccy, user_id)>>
  /\ UNCHANGED <<ret, result, queried, quotes, fxCalls, fxLegs, obs>>
  /\ UNCHANGED dbVars
  /\ UNCHANGED cgVars
  /\ UNCHANGED creating

\* a worker's create_asset activation, when it serves none
CrIdle ==
  [pc |-> "idle", body |-> None, fields |-> None, asset_id |-> 0,
   kind |-> "", err |-> ""]

\* the state after import of app.services
Init ==
  /\ req = NoReq
  /\ stack = <<>>
  /\ ret = NoRet
  /\ result = Pending
  /\ queried = <<>>
  /\ fxCalls = 0
  /\ fxLegs = <<>>
  /\ obs = NoObs
  /\ quotes = <<>>
  /\ attempts = <<>>
  /\ assets = <<>>
  /\ holdings = <<>>
  /\ prices = <<>>
  /\ CG_SYM_TO_ID = NoneDict
  /\ CG_NAME_TO_ID = NoneDict
  /\ CG_INDEX_EXPIRES_AT = 0
  /\ CG_LOCK = 0
  /\ clock = TickSec
  /\ cg = [t \in Threads |-> CgIdle]
  /\ rebuilds = <<>>
  /\ creating = [t \in Threads |-> CrIdle]

Next ==
  \/ RequestFx
  \/ FxEnter
  \/ FxLookup
  \/ FxTriangulate
  \/ RequestEquity
  \/ EquityFetch
  \/ EquityConvert
  \/ RequestSilver
  \/ SilverTier1
  \/ SilverTier2
  \/ SilverTier3
  \/ SilverConvert
  \/ RequestNormalize
  \/ CgStart(Main)
  \/ CgAcquire(Main)
  \/ CgFetch(Main)
  \/ CgStoreSym(Main)
  \/ CgStoreName(Main)
  \/ CgSymIn(Main)
  \/ CgSymGet(Main)
  \/ CgNameIn(Main)
  \/ CgNameGet(Main)
  \/ NormalizeReturn
  \/ CryptoNormalize
  \/ CryptoPrice
  \/ RequestSpot
  \/ SpotDispatch
  \/ SpotMetalRef
  \/ SpotMetalConvert
  \/ SpotSilver
  \/ SpotReturn
  \/ Tick
  \/ Done

\* one request at a time
Spec == Init /\ [][Next]_vars

\* concurrent callers of _cg_normalize_id
NextCg ==
  \/ \E t \in Threads : CgRequest(t)
  \/ \E t \in Threads : CgStart(t)
  \/ \E t \in Threads : CgAcquire(t)
  \/ \E t \in Threads : CgFetch(t)
  \/ \E t \in Threads : CgStoreSym(t)
  \/ \E t \in Threads : CgStoreName(t)
  \/ \E t \in Threads : CgSymIn(t)
  \/ \E t \in Threads : CgSymGet(t)
  \/ \E t \in Threads : CgNameIn(t)
  \/ \E t \in Threads : CgNameGet(t)
  \/ \E t \in Threads : CgFinish(t)
  \/ Tick

SpecCg == Init /\ [][NextCg]_vars

\* a caller that has entered runs on, and one that waits at the lock gets it
\* when it is free again and again
CgFairness ==
  \A t \in Threads :
    /\ WF_vars(CgStart(t))
    /\ SF_vars(CgAcquire(t))
    /\ WF_vars(CgFetch(t))
    /\ WF_vars(CgStoreSym(t))
    /\ WF_vars(CgStoreName(t))
    /\ WF_vars(CgSymIn(t))
    /\ WF_vars(CgSymGet(t))
    /\ WF_vars(CgNameIn(t))
    /\ WF_vars(CgNameGet(t))

\* the concurrent callers, scheduled fairly
SpecCgFair == Init /\ [][NextCg]_vars /\ CgFairness

\* ------------------------------------------------------------------
\* app.routes: assets and holdings
\* ------------------------------------------------------------------
\* the rows of `price` a store request may find before it stops being served
MaxRows == 2

\* the ids the database hands out for assets and for holdings
MaxAssetId == 2

MaxHoldingId == 2

\* lines 77-78: cg_map
cg_map ==
  { <<<<"B","T","C">>, <<"b","i","t","c","o","i","n">>>>, <<<<"E","T","H">>, <<"e","t","h","e","r","e","u","m">>>>, <<<<"X","M","R">>, <<"m","o","n","e","r","o">>>>,
    <<<<"L","T","C">>, <<"l","i","t","e","c","o","i","n">>>>, <<<<"A","D","A">>, <<"c","a","r","d","a","n","o">>>>, <<<<"X","R","P">>, <<"r","i","p","p","l","e">>>>,
    <<<<"D","O","G","E">>, <<"d","o","g","e","c","o","i","n">>>>, <<<<"S","O","L">>, <<"s","o","l","a","n","a">>>> }

\* mutant: the symbol stored as typed
norm_symbol_raw(symbol) == Or(symbol, <<>>)

\* line 71: norm_symbol = (symbol or "").strip().upper()
norm_symbol(symbol) == Upper(Strip(Or(symbol, <<>>)))

\* lines 71-92: the fields create_asset stores, and whether it gives up for
\* want of a coingecko reference
create_asset_fields(symbol, type, source, source_ref, native_ccy) ==
  LET sym   == norm_symbol(symbol)
      src   == Lower(Strip(Or(source, <<>>)))
      t     == Lower(Strip(Or(type, <<>>)))
      ref0  == Strip(Or(source_ref, <<>>))
      ref1  == IF src = <<"c","o","i","n","g","e","c","k","o">> /\ ref0 = <<>>
               THEN IF DictHas(cg_map, sym) THEN DictGet(cg_map, sym)
                    ELSE <<>>
               ELSE ref0
      ccy1  == IF src = <<"y","f","i","n","a","n","c","e">> /\ EndsWith(sym, <<".","L">>)
                  /\ ~Truthy(native_ccy)
               THEN <<"G","B","X">> ELSE native_ccy
      metal == src = <<"y","f","i","n","a","n","c","e">> /\ t = <<"m","e","t","a","l">> /\ ref1 = <<>>
      ref2  == IF metal /\ sym = <<"X","A","G">> THEN <<"X","A","G","U","S","D","=","X">>
               ELSE IF metal /\ sym = <<"X","A","U">> THEN <<"X","A","U","U","S","D","=","X">>
               ELSE ref1
      ccy2  == IF metal /\ sym \in {<<"X","A","G">>, <<"X","A","U">>} THEN Or(ccy1, USD)
               ELSE ccy1
  IN  [symbol |-> sym, type |-> t, source |-> src, source_ref |-> ref2,
       native_ccy |-> ccy2, no_ref |-> src = <<"c","o","i","n","g","e","c","k","o">> /\ ref1 = <<>>]

\* select(Asset).where(func.upper(Asset.symbol) == sym).first(): the index
\* of the row, 0 when there is none
asset_by_symbol(sym) ==
  LET found == { i \in 1..Len(assets) : Upper(assets[i].symbol) = sym }
  IN  IF found = {} THEN 0
      ELSE CHOOSE i \in found : \A j \in found : i <= j

\* the ids an insert may get: above every id of the table
NewIds(table, max) ==
  { id \in 1..max : \A i \in 1..Len(table) : table[i].id < id }

ErrorData(msg) == [kind |-> "error", msg |-> msg]

\* --- create_asset ---------------------------------------------------------
CreateAssetFrame(body) ==
  [fn |-> "create_asset", pc |-> "start", body |-> body, asset_id |-> 0]

\* lines 71-103: the fields, the test for an asset of that symbol, the
\* insert, and the call of poll_one_asset
CreateAssetInsert ==
  /\ Running("create_asset", {"start"})
  /\ LET b == Top.body
         f == create_asset_fields(b.symbol, b.type, b.source, b.source_ref,
                                  b.native_ccy)
     IN  IF f.no_ref
         THEN /\ ReturnData(ErrorData("For coingecko, please provide source_ref"))
              /\ assets' = assets
         ELSE IF asset_by_symbol(f.symbol) # 0
         THEN /\ ReturnData(ErrorData("already exists"))
              /\ assets' = assets
         ELSE \E id \in NewIds(assets, MaxAssetId) :
                /\ assets' = Append(assets,
                               AssetRow(id, f.symbol, f.type, f.source,
                                        f.source_ref, f.native_ccy))
                /\ Call([Top EXCEPT !.pc = "polled", !.asset_id = id],
                        PollOneFrame(id, BASE_CCY))
  /\ UNCHANGED <<req, queried, quotes, fxCalls, fxLegs, obs>>
  /\ UNCHANGED <<attempts, holdings, prices>>
  /\ UNCHANGED cgVars
  /\ UNCHANGED creating

\* line 104: return a
CreateAssetReturn ==
  /\ Running("create_asset", {"polled"})
  /\ ReturnData([kind |-> "asset", id |-> Top.asset_id])
  /\ UNCHANGED <<req, queried, quotes, fxCalls, fxLegs, obs>>
  /\ UNCHANGED dbVars
  /\ UNCHANGED cgVars
  /\ UNCHANGED creating

\* the bodies posted to /assets
CreateInputs ==
  { [symbol |-> <<"x","m","r">>, type |-> <<"C","r","y","p","t","o">>, source |-> <<"c","o","i","n","g","e","c","k","o">>,
     source_ref |-> <<>>, native_ccy |-> None],
    [symbol |-> <<" ","b","t","c">>, type |-> <<"c","r","y","p","t","o">>, source |-> <<"C","o","i","n","G","e","c","k","o"," ">>,
     source_ref |-> <<>>, native_ccy |-> None],
    [symbol |-> <<"D","O","T">>, type |-> <<"c","r","y","p","t","o">>, source |-> <<"c","o","i","n","g","e","c","k","o">>,
     source_ref |-> <<>>, native_ccy |-> None] }

RequestCreateAsset ==
  /\ req = NoReq
  /\ Len(prices) < MaxRows
  /\ NewIds(assets, MaxAssetId) # {}
  /\ \E body \in CreateInputs :
       /\ req' = [fn |-> "create_asset", body |-> body, n0 |-> Len(prices)]
       /\ stack' = <<CreateAssetFrame(body)>>
  /\ UNCHANGED <<ret, result, queried, quotes, fxCalls, fxLegs, obs>>
  /\ UNCHANGED dbVars
  /\ UNCHANGED cgVars
  /\ UNCHANGED creating

\* --- delete_asset ---------------------------------------------------------
\* mutant: the prices of the asset deleted with it
price_rows_cascade(rows, asset_id) ==
  SelectSeq(rows, LAMBDA r : r.asset_id # asset_id)

\* lines 112-114: the holdings of the asset and the asset are deleted; no
\* statement touches `price`
price_rows_kept(rows, asset_id) == rows

\* lines 108-115; where the database enforces price.asset_id -> asset.id the
\* commit fails for an asset that has prices and nothing is deleted
DeleteAsset ==
  /\ Running("delete_asset", {"start"})
  /\ LET k == asset_by_symbol(Upper(Top.symbol))
     IN  IF k = 0
         THEN /\ ReturnData([kind |-> "deleted", n |-> 0])
              /\ UNCHANGED <<assets, holdings, prices>>
         ELSE \E enforced \in BOOLEAN :
                IF enforced /\ \E r \in 1..Len(prices) :
                                 prices[r].asset_id = assets[k].id
                THEN /\ Raise("IntegrityError")
                     /\ UNCHANGED <<assets, holdings, prices>>
                ELSE /\ holdings' = SelectSeq(holdings,
                                      LAMBDA h : h.asset_id # assets[k].id)
                     /\ assets' = SelectSeq(assets,
                                    LAMBDA a : a.id # assets[k].id)
                     /\ prices' = price_rows_kept(prices, assets[k].id)
                     /\ ReturnData([kind |-> "deleted", n |-> 1])
  /\ UNCHANGED <<req, queried, quotes, fxCalls, fxLegs, obs, attempts>>
  /\ UNCHANGED cgVars
  /\ UNCHANGED creating

RequestDeleteAsset ==
  /\ req = NoReq
  /\ \E symbol \in {<<"b","t","c">>, <<"X","m","r">>} :
       /\ req' = [fn |-> "delete_asset", symbol |-> symbol,
                  n0 |-> Len(prices)]
       /\ stack' = <<[fn |-> "delete_asset", pc |-> "start",
                      symbol |-> symbol]>>
  /\ UNCHANGED <<ret, result, queried, quotes, fxCalls, fxLegs, obs>>
  /\ UNCHANGED dbVars
  /\ UNCHANGED cgVars
  /\ UNCHANGED creating

\* --- create_holding -------------------------------------------------------
\* lines 138-147: the asset of that symbol, the insert, and the call of
\* poll_one_asset
CreateHoldingInsert ==
  /\ Running("create_holding", {"start"})
  /\ LET k == asset_by_symbol(norm_symbol(Top.asset_symbol))
     IN  IF k = 0
         THEN /\ ReturnData(ErrorData("Unknown asset symbol"))
              /\ holdings' = holdings
         ELSE \E id \in NewIds(holdings, MaxHoldingId) :
                /\ holdings' = Append(holdings,
                                 HoldingRow(id, Top.account, assets[k].id,
                                            Top.qty, Top.uid))
                /\ Call([Top EXCEPT !.pc = "polled", !.holding_id = id],
                        PollOneFrame(assets[k].id, BASE_CCY))
  /\ UNCHANGED <<req, queried, quotes, fxCalls, fxLegs, obs>>
  /\ UNCHANGED <<attempts, assets, prices>>
  /\ UNCHANGED cgVars
  /\ UNCHANGED creating

\* line 148: return {"ok": True, "id": h.id}
CreateHoldingReturn ==
  /\ Running("create_holding", {"polled"})
  /\ ReturnData([kind |-> "holding", id |-> Top.holding_id])
  /\ UNCHANGED <<req, queried, quotes, fxCalls, fxLegs, obs>>
  /\ UNCHANGED dbVars
  /\ UNCHANGED cgVars
  /\ UNCHANGED creating

RequestCreateHolding ==
  /\ req = NoReq
  /\ Len(prices) < MaxRows
  /\ NewIds(holdings, MaxHoldingId) # {}
  /\ \E uid \in {1}, asset_symbol \in {<<"b","t","c">>, <<" ","X","m","r">>, <<"d","o","t">>} :
       /\ req' = [fn |-> "create_holding", uid |-> uid,
                  asset_symbol |-> asset_symbol, n0 |-> Len(prices)]
       /\ stack' = <<[fn |-> "create_holding", pc |-> "start", uid |-> uid,
                      asset_symbol |-> asset_symbol, qty |-> <<2, 1>>,
                      account |-> <<"D","e","f","a","u","l","t">>, holding_id |-> 0]>>
  /\ UNCHANGED <<ret, result, queried, quotes, fxCalls, fxLegs, obs>>
  /\ UNCHANGED dbVars
  /\ UNCHANGED cgVars
  /\ UNCHANGED creating

\* --- delete_holding -------------------------------------------------------
\* lines 152-158: only the caller's own holding is deleted
DeleteHolding ==
  /\ Running("delete_holding", {"start"})
  /\ LET own == { i \in 1..Len(holdings) :
                    /\ holdings[i].id = Top.holding_id
                    /\ holdings[i].user_id = Top.uid }
     IN  IF own = {}
         THEN /\ ReturnData([kind |-> "deleted", n |-> 0])
              /\ holdings' = holdings
         ELSE /\ holdings' = SelectSeq(holdings,
                               LAMBDA h : h.id # Top.holding_id)
              /\ ReturnData([kind |-> "deleted", n |-> 1])
  /\ UNCHANGED <<req, queried, quotes, fxCalls, fxLegs, obs>>
  /\ UNCHANGED <<attempts, assets, prices>>
  /\ UNCHANGED cgVars
  /\ UNCHANGED creating

RequestDeleteHolding ==
  /\ req = NoReq
  /\ \E uid \in {1, 2}, holding_id \in 1..MaxHoldingId :
       /\ req' = [fn |-> "delete_holding", uid |-> uid,
                  holding_id |-> holding_id, n0 |-> Len(prices)]
       /\ stack' = <<[fn |-> "delete_holding", pc |-> "start", uid |-> uid,
                      holding_id |-> holding_id]>>
  /\ UNCHANGED <<ret, result, queried, quotes, fxCalls, fxLegs, obs>>
  /\ UNCHANGED dbVars
  /\ UNCHANGED cgVars
  /\ UNCHANGED creating

\* --- the requests of the store's specification ---------------------------
StorePollOne == Len(prices) < MaxRows /\ RequestPollOne

StorePollPrices == Len(prices) < MaxRows /\ RequestPollPrices

StoreOverview ==
  /\ Len(prices) < MaxRows
  /\ RequestOverview
  /\ req'.base_ccy = None
  /\ req'.user_id = <<1>>

\* the state after start-up on a database that holds assets and holdings
InitDb ==
  /\ req = NoReq
  /\ stack = <<>>
  /\ ret = NoRet
  /\ result = Pending
  /\ queried = <<>>
  /\ fxCalls = 0
  /\ fxLegs = <<>>
  /\ obs = NoObs
  /\ quotes = <<>>
  /\ attempts = <<>>
  /\ assets = StoredAssets
  /\ holdings = StoredHoldings
  /\ prices = <<>>
  /\ CG_SYM_TO_ID = NoneDict
  /\ CG_NAME_TO_ID = NoneDict
  /\ CG_INDEX_EXPIRES_AT = 0
  /\ CG_LOCK = 0
  /\ clock = TickSec
  /\ cg = [t \in Threads |-> CgIdle]
  /\ rebuilds = <<>>
  /\ creating = [t \in Threads |-> CrIdle]

NextDb ==
  \/ RequestPollOne
  \/ PollOneFetch
  \/ PollOneStore
  \/ PollOneExcept
  \/ RequestPollPrices
  \/ PollList
  \/ PollFetch
  \/ PollStore
  \/ PollExcept
  \/ RequestOverview
  \/ OverviewGather
  \/ OverviewItem
  \/ OverviewPolled
  \/ OverviewReturn
  \/ SpotDispatch
  \/ SpotReturn
  \/ CryptoNormalize
  \/ CgStart(Main)
  \/ NormalizeReturn
  \/ CryptoPrice
  \/ Tick
  \/ Done

\* polling and snapshots, one request at a time
SpecDb == InitDb /\ [][NextDb]_vars

\* the state after start-up on a database with one asset and one holding
InitStore ==
  /\ req = NoReq
  /\ stack = <<>>
  /\ ret = NoRet
  /\ result = Pending
  /\ queried = <<>>
  /\ fxCalls = 0
  /\ fxLegs = <<>>
  /\ obs = NoObs
  /\ quotes = <<>>
  /\ attempts = <<>>
  /\ assets = << AssetRow(1, <<"B","T","C">>, <<"c","r","y","p","t","o">>, <<"c","o","i","n","g","e","c","k","o">>, <<"b","i","t","c","o","i","n">>, None) >>
  /\ holdings = << HoldingRow(1, <<"D","e","f","a","u","l","t">>, 1, <<1, 2>>, 1) >>
  /\ prices = <<>>
  /\ CG_SYM_TO_ID = NoneDict
  /\ CG_NAME_TO_ID = NoneDict
  /\ CG_INDEX_EXPIRES_AT = 0
  /\ CG_LOCK = 0
  /\ clock = TickSec
  /\ cg = [t \in Threads |-> CgIdle]
  /\ rebuilds = <<>>
  /\ creating = [t \in Threads |-> CrIdle]

NextStore ==
  \/ RequestCreateAsset
  \/ CreateAssetInsert
  \/ CreateAssetReturn
  \/ RequestDeleteAsset
  \/ DeleteAsset
  \/ RequestCreateHolding
  \/ CreateHoldingInsert
  \/ CreateHoldingReturn
  \/ RequestDeleteHolding
  \/ DeleteHolding
  \/ StorePollOne
  \/ PollOneFetch
  \/ PollOneStore
  \/ PollOneExcept
  \/ StorePollPrices
  \/ PollList
  \/ PollFetch
  \/ PollStore
  \/ PollExcept
  \/ StoreOverview
  \/ OverviewGather
  \/ OverviewItem
  \/ OverviewPolled
  \/ OverviewReturn
  \/ SpotDispatch
  \/ SpotReturn
  \/ CryptoNormalize
  \/ CgStart(Main)
  \/ NormalizeReturn
  \/ CryptoPrice
  \/ Tick
  \/ Done

\* the routes that change the store, polling and snapshots, one request at
\* a time
SpecStore == InitStore /\ [][NextStore]_vars

\* --- init_db and concurrent create_asset requests ---------------------
\* lines 72-96: _ensure_asset, get-or-create by symbol
ensure_asset(table, symbol, type, source, source_ref, native_ccy) ==
  LET symu == Upper(Strip(symbol))
  IN  IF \E i \in 1..Len(table) : Upper(table[i].symbol) = symu
      THEN table
      ELSE Append(table, AssetRow(Len(table) + 1, symu, type, source,
                                  source_ref, native_ccy))

\* lines 118-124: the assets init_db puts into an empty database
SeededAssets ==
  ensure_asset(
    ensure_asset(
      ensure_asset(
        ensure_asset(<<>>, <<"B","T","C">>, <<"c","r","y","p","t","o">>, <<"c","o","i","n","g","e","c","k","o">>, <<"b","i","t","c","o","i","n">>, None),
        <<"X","M","R">>, <<"c","r","y","p","t","o">>, <<"c","o","i","n","g","e","c","k","o">>, <<"m","o","n","e","r","o">>, None),
      <<"X","A","G">>, <<"m","e","t","a","l">>, <<"y","f","i","n","a","n","c","e">>, <<"X","A","G","U","S","D","=","X">>, USD),
    <<"A","A","P","L">>, <<"e","q","u","i","t","y">>, <<"y","f","i","n","a","n","c","e">>, <<"A","A","P","L">>, USD)

\* the bodies the workers are posted
RaceInputs ==
  { [symbol |-> <<"e","t","h">>, type |-> <<"c","r","y","p","t","o">>, source |-> <<"c","o","i","n","g","e","c","k","o">>,
     source_ref |-> <<>>, native_ccy |-> None],
    [symbol |-> <<"E","T","H"," ">>, type |-> <<"c","r","y","p","t","o">>, source |-> <<"c","o","i","n","g","e","c","k","o">>,
     source_ref |-> <<>>, native_ccy |-> None],
    [symbol |-> <<"b","t","c">>, type |-> <<"c","r","y","p","t","o">>, source |-> <<"c","o","i","n","g","e","c","k","o">>,
     source_ref |-> <<>>, native_ccy |-> None] }

CrErr(c, e) == [c EXCEPT !.pc = "done", !.kind = "error", !.err = e]

\* a worker takes a POST /assets; lines 71-92: the fields
CrRequest(t) ==
  /\ creating[t].pc = "idle"
  /\ Len(assets) < Len(SeededAssets) + MaxAssetId
  /\ \E body \in RaceInputs :
       creating' = [creating EXCEPT ![t] =
         LET f == create_asset_fields(body.symbol, body.type, body.source,
                                      body.source_ref, body.native_ccy)
         IN  IF f.no_ref
             THEN CrErr([@ EXCEPT !.body = body],
                        "For coingecko, please provide source_ref")
             ELSE [@ EXCEPT !.pc = "check", !.body = body, !.fields = f]]
  /\ UNCHANGED <<pVars, cgVars>>

\* lines 95-97: the select for an asset of that symbol
CrCheck(t) ==
  /\ creating[t].pc = "check"
  /\ creating' = [creating EXCEPT ![t] =
       IF asset_by_symbol(@.fields.symbol) # 0
       THEN CrErr(@, "already exists")
       ELSE [@ EXCEPT !.pc = "insert"]]
  /\ UNCHANGED <<pVars, cgVars>>

\* lines 98-99: s.add(a); s.commit(); s.refresh(a)
CrInsert(t) ==
  /\ creating[t].pc = "insert"
  /\ \E id \in NewIds(assets, Len(SeededAssets) + MaxAssetId) :
       LET f == creating[t].fields
       IN  /\ assets' = Append(assets,
                          AssetRow(id, f.symbol, f.type, f.source,
                                   f.source_ref, f.native_ccy))
           /\ creating' = [creating EXCEPT ![t].pc = "poll",
                                           ![t].asset_id = id]
  /\ UNCHANGED <<req, stack, ret, result, queried, fxCalls, fxLegs, obs,
                 quotes, attempts, holdings, prices>>
  /\ UNCHANGED cgVars

\* lines 102-104: poll_one_asset(engine, a.id, BASE_CCY), whose fetch gives
\* a price or fails, and return a
CrPoll(t) ==
  /\ creating[t].pc = "poll"
  /\ \E px \in CoinQuotes \cup {NoPrice} :
       prices' =
         IF px = NoPrice THEN prices
         ELSE Append(prices,
                PriceRow(creating[t].asset_id, clock, px,
                         Src("coingecko", creating[t].fields.source_ref,
                             FALSE, <<>>, BASE_CCY),
                         BASE_CCY))
  /\ creating' = [creating EXCEPT ![t].pc = "done", ![t].kind = "ok"]
  /\ UNCHANGED <<req, stack, ret, result, queried, fxCalls, fxLegs, obs,
                 quotes, attempts, assets, holdings>>
  /\ UNCHANGED cgVars

\* the response has been sent
CrFinish(t) ==
  /\ creating[t].pc = "done"
  /\ creating' = [creating EXCEPT ![t] = CrIdle]
  /\ UNCHANGED <<pVars, cgVars>>

\* the state after start-up on an empty database
InitCreate ==
  /\ req = NoReq
  /\ stack = <<>>
  /\ ret = NoRet
  /\ result = Pending
  /\ queried = <<>>
  /\ fxCalls = 0
  /\ fxLegs = <<>>
  /\ obs = NoObs
  /\ quotes = <<>>
  /\ attempts = <<>>
  /\ assets = SeededAssets
  /\ holdings = <<>>
  /\ prices = <<>>
  /\ CG_SYM_TO_ID = NoneDict
  /\ CG_NAME_TO_ID = NoneDict
  /\ CG_INDEX_EXPIRES_AT = 0
  /\ CG_LOCK = 0
  /\ clock = TickSec
  /\ cg = [t \in Threads |-> CgIdle]
  /\ rebuilds = <<>>
  /\ creating = [t \in Threads |-> CrIdle]

NextCreate ==
  \/ \E t \in Threads : CrRequest(t)
  \/ \E t \in Threads : CrCheck(t)
  \/ \E t \in Threads : CrInsert(t)
  \/ \E t \in Threads : CrPoll(t)
  \/ \E t \in Threads : CrFinish(t)

\* the workers of the thread pool serving POST /assets
SpecCreate == InitCreate /\ [][NextCreate]_vars

\* ==================================================================
\* Properties
\* ==================================================================
Finished == req # NoReq /\ stack = <<>> /\ result.kind # "pending"

\* fx_rate frames that are in the middle of a triangulation
TriFrames ==
  { i \in 1..Len(stack) :
      stack[i].fn = "fx_rate" /\ stack[i].pc \in {"leg1", "leg2"} }

\* C1: for every pair of codes fx_rate ends with a rate or with the
\* rate-unavailable error, and a triangulation uses one intermediate only:
\* neither of its two sub-lookups triangulates again.
C1_FxTerminatesOneHop ==
  /\ Cardinality(TriFrames) <= 1
  /\ result.kind = "error" /\ req.fn = "fx_rate"
       => result.err = "FX price unavailable"

\* C2: fx_rate(X, X) is exactly 1.0 and queries no ticker, whatever the
\* provider would have answered.
C2_FxIdentity ==
  req.fn = "fx_rate" /\ Upper(req.base) = Upper(req.quote)
    => /\ queried = <<>>
       /\ result.kind # "error"
       /\ result.kind = "ok" => result.val = <<1, 1>>

C2_Witness ==
  /\ Finished
  /\ req.fn = "fx_rate" /\ req.base = JPY /\ req.quote = JPY
  /\ result.val = <<1, 1>>

\* C3: for a pair A # B without a direct-pair entry, fx_rate(A, B) is the
\* product fx_rate(A, via) * fx_rate(via, B), with via = USD when neither
\* end is USD, else EUR when neither end is EUR, else GBP, and via is
\* neither A nor B.
C3_TriangulationProduct ==
  /\ \A i \in TriFrames :
       /\ stack[i].via = IF stack[i].base # USD /\ stack[i].quote # USD
                         THEN USD
                         ELSE IF stack[i].base # EUR /\ stack[i].quote # EUR
                         THEN EUR ELSE GBP
       /\ stack[i].via \notin {stack[i].base, stack[i].quote}
  /\ ( /\ Finished
       /\ req.fn = "fx_rate"
       /\ Upper(req.base) # Upper(req.quote)
       /\ <<Upper(req.base), Upper(req.quote)>> \notin DOMAIN YF_FX_TICKER
       /\ result.err # "FX price unavailable" )
       => /\ result.kind = "ok"
          /\ Len(fxLegs) = 2
          /\ RatEq(result.val, RatMul(fxLegs[1], fxLegs[2]))

\* C4: every pence spelling, reported or hinted, has the fetched price
\* divided by exactly 100 and GBP as native currency from then on; a
\* major-unit currency leaves the price as fetched.
PenceSpellings ==
  { <<"G","B","X">>, <<"G","B","P"," ","(","P","E","N","C","E",")">>, <<"G","B","P"," ","(","G","B","X",")">>, <<"G","B","P","/","G","B","X">>, <<"G","B","P"," ","G","B","X">>, <<"G","B","P","(","G","B","X",")">>,
    <<"G","B","p">> }

C4_PenceNormalized ==
  /\ obs.spelled \in PenceSpellings
       => /\ RatEq(obs.px, <<obs.raw[1], obs.raw[2] * 100>>)
          /\ obs.native = GBP
  /\ obs.spelled \in {GBP, USD}
       => /\ obs.px = obs.raw
          /\ obs.native = obs.spelled

\* C5: fetch_equity_price calls fx_rate exactly once, and marks the
\* provenance, when the native currency after normalisation differs from
\* the target; it makes no FX call, returns the price unconverted and leaves
\* the provenance unmarked when they are equal; a pence price of 150.0 with
\* target GBP comes out as 1.5 with no FX step.
C5_FxOnlyWhenNeeded ==
  req.fn = "fetch_equity_price" /\ Finished /\ result.kind = "ok"
    => /\ obs.native # Upper(req.target_ccy)
            => fxCalls = 1 /\ result.src.fx
       /\ obs.native = Upper(req.target_ccy)
            => fxCalls = 0 /\ ~result.src.fx /\ result.val = obs.px
       /\ ( /\ obs.spelled \in PenceSpellings
            /\ obs.raw = <<150, 1>>
            /\ Upper(req.target_ccy) = GBP )
            => fxCalls = 0 /\ RatEq(result.val, <<3, 2>>)

\* the part of C5 that does not depend on the pence spellings
C5_FxCallCount ==
  req.fn = "fetch_equity_price" /\ Finished /\ result.kind = "ok"
    => /\ obs.native # Upper(req.target_ccy)
            => fxCalls = 1 /\ result.src.fx
       /\ obs.native = Upper(req.target_ccy)
            => fxCalls = 0 /\ ~result.src.fx /\ result.val = obs.px

\* --- _cg_normalize_id, one caller (Spec) -------------------------------
\* the stripped input of the finished call of the request thread
NormS == Strip(Or(cg[Main].arg, <<>>))

\* lowercase with no internal spaces
IdLike(s) == Lower(s) = s /\ ~HasSpace(s)

\* the call of the request thread is over and its index refresh, if it
\* made one, did not fail
NormDone == cg[Main].pc = "done" /\ cg[Main].err # "HTTPError"

NormGives(id) == cg[Main].kind = "ok" /\ cg[Main].id = id

\* C6: with a populated index holding a coin (I, S, N), the symbol S, the
\* name N and the id I all resolve to I, in whatever letter case the symbol
\* or the name is written.
C6_CaseInsensitive ==
  NormDone /\ ~CG_SYM_TO_ID.none /\ ~CG_NAME_TO_ID.none
    => \A es \in CG_SYM_TO_ID.d, en \in CG_NAME_TO_ID.d :
         ( /\ es[2] = en[2]
           /\ \/ Upper(NormS) = es[1]
              \/ Lower(NormS) = en[1]
              \/ NormS = es[2] )
           => NormGives(es[2])

\* C6 as amended: the id I (lowercase, no spaces) resolves to itself; a
\* spelling of S that is not lowercase-without-spaces resolves to I; so does
\* such a spelling of N unless its upper-case form is a symbol of the index;
\* a lowercase spelling without spaces is returned as it is, unlooked-up.
C6_CaseInsensitiveLookup ==
  NormDone /\ ~CG_SYM_TO_ID.none /\ ~CG_NAME_TO_ID.none /\ NormS # <<>>
    => /\ IdLike(NormS) => NormGives(NormS)
       /\ \A es \in CG_SYM_TO_ID.d :
            ~IdLike(NormS) /\ Upper(NormS) = es[1] => NormGives(es[2])
       /\ \A en \in CG_NAME_TO_ID.d :
            ( /\ ~IdLike(NormS)
              /\ Lower(NormS) = en[1]
              /\ \A es \in CG_SYM_TO_ID.d : es[1] # Upper(NormS) )
              => NormGives(en[2])

C6_Witness ==
  /\ NormDone
  /\ cg[Main].arg = <<" ","E","t","h"," ">>
  /\ <<<<"E","T","H">>, <<"e","t","h","e","r","e","u","m">>>> \in CG_SYM_TO_ID.d
  /\ NormGives(<<"e","t","h","e","r","e","u","m">>)

\* C7: a lowercase input without spaces is returned as the id and the index
\* is neither consulted nor refreshed; any other input is looked up as an
\* upper-case symbol first and as a lower-case name only when that misses;
\* an empty input, or one that matches neither, fails and yields no id.
C7_NormalizeOrder ==
  NormDone
    => IF NormS = <<>>
       THEN /\ cg[Main].kind = "error"
            /\ cg[Main].err = "Empty crypto identifier"
            /\ cg[Main].id = <<>>
            /\ ~cg[Main].touched
       ELSE IF IdLike(NormS)
       THEN NormGives(NormS) /\ ~cg[Main].touched
       ELSE /\ cg[Main].touched
            /\ IF \E e \in CG_SYM_TO_ID.d : e[1] = Upper(NormS)
               THEN \E e \in CG_SYM_TO_ID.d :
                      e[1] = Upper(NormS) /\ NormGives(e[2])
               ELSE IF \E e \in CG_NAME_TO_ID.d : e[1] = Lower(NormS)
               THEN \E e \in CG_NAME_TO_ID.d :
                      e[1] = Lower(NormS) /\ NormGives(e[2])
               ELSE /\ cg[Main].kind = "error"
                    /\ cg[Main].err = "Unknown crypto symbol/name/id"
                    /\ cg[Main].id = <<>>

\* an input that is both a symbol and a name of the index: the symbol wins
C7_Witness ==
  /\ NormDone
  /\ cg[Main].arg = <<"E","t","h","e","r","e","u","m">>
  /\ <<<<"E","T","H","E","R","E","U","M">>, <<"w","r","a","p","p","e","d","-","e","t","h","e","r">>>> \in CG_SYM_TO_ID.d
  /\ <<<<"e","t","h","e","r","e","u","m">>, <<"e","t","h","e","r","e","u","m">>>> \in CG_NAME_TO_ID.d
  /\ NormGives(<<"w","r","a","p","p","e","d","-","e","t","h","e","r">>)

\* --- _refresh_cg_index_if_needed, concurrent callers (SpecCg) -----------
Rebuilding == { t \in Threads : cg[t].pc \in {"fetch", "store_sym", "store_name"} }

LookingUp ==
  { t \in Threads : cg[t].pc \in {"sym_in", "sym_get", "name_in", "name_get"} }

\* C8: a rebuild is started only on an empty or expired cache; completed
\* rebuilds are at least one TTL apart (none is triggered within the TTL
\* window of the one before, even when several callers found the cache
\* expired together); and no lookup goes on to the maps unless the cache is
\* populated and unexpired as of the caller's own `now`.
C8_RebuildOncePerTtl ==
  /\ \A t \in Threads :
       /\ cg[t].pc \in {"fetch", "store_sym"}
            => CG_SYM_TO_ID.none \/ cg[t].now >= CG_INDEX_EXPIRES_AT
       /\ t \in LookingUp
            => ~CG_SYM_TO_ID.none /\ cg[t].now < CG_INDEX_EXPIRES_AT
  /\ \A i, j \in 1..Len(rebuilds) :
       i < j => rebuilds[j] >= rebuilds[i] + 24 * 60 * 60

\* every caller read the same time, at which the index built at the first
\* tick had expired, and it was rebuilt once for all of them
C8_Witness ==
  /\ rebuilds = <<TickSec, 3 * TickSec>>
  /\ \A t \in Threads : t \in LookingUp /\ cg[t].now = 3 * TickSec

\* C9: at most one rebuild of the index is in flight.
C9_OneRebuildInFlight == Cardinality(Rebuilding) <= 1

\* a caller rebuilds while another one waits for the lock
C9_Witness ==
  \E t, u \in Threads :
    /\ t # u
    /\ cg[t].pc = "store_sym"
    /\ cg[u].pc = "lock"
    /\ ~cg_index_fresh(cg[u].now)

\* --- fetch_silver_price ------------------------------------------------
SilverRequest ==
  \/ req.fn = "fetch_silver_price"
  \/ /\ req.fn = "fetch_spot_by_source"
     /\ req.asset.asset_type \in {<<"m","e","t","a","l">>, <<"M","e","t","a","l">>}
     /\ req.asset.source = <<"y","f","i","n","a","n","c","e">>
     /\ ~Truthy(req.asset.source_ref) \/ Upper(req.asset.source_ref) = XAG

Queried(tkr) == \E i \in 1..Len(queried) : queried[i] = tkr

\* C10: the silver resolution ends without a price only when each of its
\* three tiers was tried and failed, and then with the price-unavailable
\* outcome; a tier that fails (no quote, or no FX rate) hands over to the
\* next tier.
C10_SilverFallsThrough ==
  SilverRequest /\ Finished /\ (result.kind = "error" \/ result.val = NoPrice)
    => /\ Queried(XAG \o Upper(req.target_ccy) \o <<"=", "X">>)
       /\ Queried(XAGUSD_X)
       /\ Queried(SI_F)
       /\ \/ result.kind = "ok" /\ result.src.tag = "unavailable"
          \/ result.kind = "error" /\ result.err = "Silver price unavailable"

\* the tickers of the FX table
FxTickers == { YF_FX_TICKER[k] : k \in DOMAIN YF_FX_TICKER }

\* the three tiers of the silver chain for the request's target currency
SilverChain ==
  << XAG \o Upper(req.target_ccy) \o <<"=", "X">>, XAGUSD_X, SI_F >>

\* the silver tickers queried so far
SilverQueried == { i \in 1..Len(queried) : queried[i] \notin FxTickers }

\* C11: in the silver chain the first tier that yields a price wins: the
\* tiers are queried in order, a tier is queried only when every earlier
\* tier gave nothing, and a returned price carries the provenance (and the
\* quote) of the last tier queried; with only the USD spot ticker quoted the
\* result has the second tier's provenance and SI=F is never queried.
C11_FirstTierWins ==
  SilverRequest
    => /\ \A i \in SilverQueried :
            /\ i <= 3
            /\ queried[i] = SilverChain[i]
            /\ \A j \in 1..(i - 1) : j \in SilverQueried /\ quotes[j] = NoPrice
       /\ ( Finished /\ result.kind = "ok" /\ result.val # NoPrice )
            => LET k == Cardinality(SilverQueried)
               IN  /\ k >= 1
                   /\ quotes[k] # NoPrice
                   /\ result.src.tag = "yfinance"
                   /\ result.src.ref = SilverChain[k]
                   /\ result.src.fx = (k > 1)
                   /\ k = 1 \/ Upper(req.target_ccy) = USD
                        => result.val = quotes[k] /\ Len(queried) = k
                   /\ k > 1 /\ Upper(req.target_ccy) # USD
                        => /\ Len(queried) = k + 1
                           /\ RatEq(result.val, RatMul(quotes[k], quotes[k + 1]))
       /\ ( /\ Len(quotes) >= 2
            /\ quotes[1] = NoPrice
            /\ quotes[2] # NoPrice )
            => /\ ~Queried(SI_F)
               /\ Finished /\ result.kind = "ok"
                    => result.src.ref = XAGUSD_X /\ result.src.fx

\* only XAGUSD=X (and the USD/GBP rate) quoted: the second tier's price
C11_Witness ==
  /\ Finished
  /\ req.fn = "fetch_silver_price"
  /\ queried = << <<"X","A","G","G","B","P","=","X">>, XAGUSD_X, <<"U","S","D","G","B","P","=","X">> >>
  /\ quotes = << NoPrice, <<150, 1>>, <<4, 5>> >>
  /\ result.kind = "ok"
  /\ result.src.ref = XAGUSD_X
  /\ RatEq(result.val, <<120, 1>>)

\* --- fetch_spot_by_source -----------------------------------------------
SpotRequest == req.fn = "fetch_spot_by_source"

\* the function fetch_spot_by_source has called, "" when it has called none
SpotCallee == IF Len(stack) >= 2 THEN stack[2].fn ELSE ""

\* neither a provider nor the FX resolver was called
NoProviderCall ==
  /\ queried = <<>>
  /\ fxCalls = 0
  /\ cg[Main] = CgIdle
  /\ Len(stack) <= 1

DispatchErrors ==
  { "coingecko source requires source_ref",
    "Manual source not implemented yet",
    "Unsupported source" }

\* C12: fetch_spot_by_source dispatches on the lower-cased provider tag:
\* coingecko -> the crypto adapter, or the invalid-request error when the
\* reference is empty; yfinance with type metal -> the metal adapter;
\* yfinance with another type -> the equity adapter with source_ref as
\* ticker; manual -> the not-implemented error; anything else -> the
\* unsupported-provider error; the three failing branches call neither a
\* provider nor the FX resolver.
C12_Dispatch ==
  SpotRequest
    => LET src == Lower(Or(req.asset.source, <<>>))
           typ == Lower(Or(req.asset.asset_type, <<>>))
           ref == req.asset.source_ref
           Fails(e) == /\ NoProviderCall
                       /\ Finished => result.kind = "error" /\ result.err = e
           Goes(fns) == /\ SpotCallee \in fns \cup {""}
                        /\ Finished => result.err \notin DispatchErrors
       IN  IF src = <<"c","o","i","n","g","e","c","k","o">>
           THEN IF ref = None \/ ref = <<>>
                THEN Fails("coingecko source requires source_ref")
                ELSE /\ Goes({"fetch_crypto_price_by_id"})
                     /\ SpotCallee # "" => stack[2].cg_id = ref
           ELSE IF src = <<"y","f","i","n","a","n","c","e">>
           THEN IF typ = <<"m","e","t","a","l">>
                THEN Goes({"fetch_silver_price", "fx_rate"})
                ELSE /\ Goes({"fetch_equity_price"})
                     /\ SpotCallee # ""
                          => stack[2].symbol = IF ref = None THEN <<>> ELSE ref
           ELSE IF src = <<"m","a","n","u","a","l">>
           THEN Fails("Manual source not implemented yet")
           ELSE Fails("Unsupported source")

\* a mixed-case provider tag reaches the crypto adapter, which gives a price
C12_Witness ==
  /\ SpotRequest
  /\ Finished
  /\ req.asset.source = <<"C","o","i","n","G","e","c","k","o">>
  /\ result.kind = "ok"
  /\ result.src.tag = "coingecko"

\* a metal request with an explicit provider reference other than XAG
MetalRefRequest ==
  /\ SpotRequest
  /\ Lower(Or(req.asset.source, <<>>)) = <<"y","f","i","n","a","n","c","e">>
  /\ Lower(Or(req.asset.asset_type, <<>>)) = <<"m","e","t","a","l">>
  /\ Truthy(req.asset.source_ref)
  /\ Upper(req.asset.source_ref) # XAG

\* the silver chain is, or was, consulted
SilverConsulted ==
  \/ \E i \in 1..Len(stack) : stack[i].fn = "fetch_silver_price"
  \/ \E i \in 2..Len(queried) : queried[i] \notin FxTickers

\* C19: for a metal asset with an explicit reference other than XAG the
\* reference is queried first; if it gives a price the result is that price
\* converted from the hinted native currency (USD without a hint) to the
\* target by fx_rate, unconverted when the two are equal, and the silver
\* chain is never consulted; the chain is entered only when the reference
\* gave no price.
C19_ExplicitRefFirst ==
  MetalRefRequest
    => LET ref    == req.asset.source_ref
           native == IF req.asset.native_ccy_hint \in {None, <<>>}
                     THEN USD ELSE Upper(req.asset.native_ccy_hint)
           target == Upper(req.target_ccy)
       IN  /\ Len(stack) >= 2 \/ Finished => Len(queried) >= 1
           /\ Len(queried) >= 1 => queried[1] = ref
           /\ SilverConsulted => quotes[1] = NoPrice
           /\ Len(quotes) >= 1 /\ quotes[1] # NoPrice
                => /\ ~SilverConsulted
                   /\ Len(stack) >= 2
                        => /\ stack[2].fn = "fx_rate"
                           /\ stack[2].base = native
                           /\ stack[2].quote = target
                           /\ native # target
                   /\ Finished /\ result.kind = "ok"
                        => /\ result.src.tag = "yfinance"
                           /\ result.src.ref = ref
                           /\ result.src.fx = (native # target)
                           /\ native = target
                                => result.val = quotes[1] /\ Len(queried) = 1
                           /\ ( /\ native # target
                                /\ <<native, target>> \in DOMAIN YF_FX_TICKER )
                                => /\ queried = <<ref, YF_FX_TICKER[<<native, target>>]>>
                                   /\ RatEq(result.val,
                                            RatMul(quotes[1], quotes[2]))

\* the explicit reference XAGUSD=X is quoted and converted from USD to GBP
C19_Witness ==
  /\ MetalRefRequest
  /\ Finished
  /\ req.asset.source_ref = XAGUSD_X
  /\ req.target_ccy = GBP
  /\ quotes = << <<30, 1>>, <<5, 4>> >>
  /\ result.kind = "ok"
  /\ RatEq(result.val, <<75, 2>>)

\* --- fetch_equity_price: the native currency ------------------------------
\* the major-unit currency a given currency code stands for
MajorUnit(c) ==
  IF Upper(c) \in { Upper(x) : x \in PenceSpellings } THEN GBP ELSE Upper(c)

\* C20: the native currency of an equity is the currency the provider
\* reports when it reports one, else the caller's hint when there is one,
\* else GBP for a symbol ending in ".L" (in any letter case) and USD for
\* every other symbol; the suffix never overrides a reported or hinted
\* currency.
C20_NativePrecedence ==
  req.fn = "fetch_equity_price" /\ obs # NoObs
    => LET hint == req.native_ccy_hint
           sfx  == SubSeq(req.symbol, Len(req.symbol) - 1, Len(req.symbol))
       IN  IF obs.reported # None /\ obs.reported # <<>>
           THEN obs.native = MajorUnit(obs.reported)
           ELSE IF hint # None /\ hint # <<>>
           THEN obs.native = MajorUnit(hint)
           ELSE IF sfx \in { <<".", "L">>, <<".", "l">> }
           THEN obs.native = GBP
           ELSE obs.native = USD

\* a London symbol with a USD hint and no reported currency stays USD
C20_Witness ==
  /\ Finished
  /\ req.fn = "fetch_equity_price"
  /\ req.symbol = VOD_L
  /\ req.native_ccy_hint = USD
  /\ obs.reported = None
  /\ obs.native = USD
  /\ result.kind = "ok"

\* a lookup that has arrived at the refresh and has not got the lock yet
AtLock == { t \in Threads : cg[t].pc = "lock" }

\* both maps have been populated by an earlier rebuild
IndexPopulated == ~CG_SYM_TO_ID.none /\ ~CG_NAME_TO_ID.none

\* C17: a lookup that needs the index and arrives while a rebuild is in
\* flight, with a stale populated index in place, can proceed on the stale
\* data: it does not have to wait for the rebuild to finish.
C17_ReadersProceedOnStale ==
  \A t \in AtLock :
    Rebuilding \ {t} # {} /\ IndexPopulated => cg_lock_free

\* C17 as amended: a lookup that arrives while a rebuild is in flight waits
\* for the rebuild lock, stale index or not: it leaves the lock statement
\* only when no other caller is rebuilding, and it goes on to the maps only
\* with an index that is populated and unexpired as of its own `now`.
C17_ReadersWait ==
  /\ [][ \A t \in AtLock :
           cg'[t].pc # "lock" => Rebuilding \ {t} = {} ]_vars
  /\ [](\A t \in LookingUp :
           IndexPopulated /\ cg[t].now < CG_INDEX_EXPIRES_AT)

\* a caller waits at the lock, with the expired index of an earlier rebuild
\* in place, while another caller fetches the catalogue
C17_Witness ==
  \E t, u \in Threads :
    /\ t # u
    /\ cg[t].pc = "lock"
    /\ cg[u].pc = "fetch"
    /\ IndexPopulated
    /\ rebuilds # <<>>
    /\ cg[t].now >= CG_INDEX_EXPIRES_AT

\* --- the maps built by a rebuild ------------------------------------------
HasId(c) == c.id # None /\ c.id # <<>>

SymKey(c) == IF c.symbol = None THEN <<>> ELSE Upper(c.symbol)

NameKey(c) == IF c.name = None THEN <<>> ELSE Lower(c.name)

\* the first coin of the catalogue with an id and the given key
FirstWith(coins, Key(_), k) ==
  CHOOSE i \in 1..Len(coins) :
    /\ HasId(coins[i]) /\ Key(coins[i]) = k
    /\ \A j \in 1..(i - 1) : ~(HasId(coins[j]) /\ Key(coins[j]) = k)

\* map holds, for every key carried by a coin with an id, the id of the
\* first such coin, and nothing else
FirstWins(map, coins, Key(_)) ==
  /\ \A e \in map :
       /\ \E i \in 1..Len(coins) : HasId(coins[i]) /\ Key(coins[i]) = e[1]
       /\ e[2] = Lower(coins[FirstWith(coins, Key, e[1])].id)
       /\ \A f \in map : f[1] = e[1] => f = e
  /\ \A i \in 1..Len(coins) :
       HasId(coins[i]) /\ Key(coins[i]) # <<>>
         => \E e \in map : e[1] = Key(coins[i])

\* C18: the maps a rebuild builds and stores hold, for each symbol and each
\* name, the id of the first catalogue entry carrying it; a later duplicate
\* never replaces it, and entries with an empty id contribute nothing.
C18_FirstIdKept ==
  \A t \in Threads :
    /\ cg[t].pc \in {"store_sym", "store_name"}
         => /\ FirstWins(cg[t].sym_map, cg[t].coins, SymKey)
            /\ FirstWins(cg[t].name_map, cg[t].coins, NameKey)
    /\ cg[t].pc = "store_name" => CG_SYM_TO_ID = SomeDict(cg[t].sym_map)

\* a catalogue with two coins ETH / Ethereum and a coin without id
C18_Witness ==
  \E t \in Threads :
    /\ cg[t].pc = "store_name"
    /\ cg[t].coins = CatalogueA
    /\ << <<"E","T","H">>, <<"e","t","h","e","r","e","u","m">> >> \in CG_SYM_TO_ID.d
    /\ << <<"e","t","h","e","r","e","u","m">>, <<"e","t","h","e","r","e","u","m">> >> \in cg[t].name_map
    /\ \A e \in CG_SYM_TO_ID.d : e[1] # <<"B","T","C">>

\* ------------------------------------------------------------------
\* poll_prices
\* ------------------------------------------------------------------
PollFinished == req.fn = "poll_prices" /\ Finished

\* the fetches the request made for asset id
AttemptsOf(id) == { k \in 1..Len(attempts) : attempts[k].asset_id = id }

\* the rows the request added for asset id
NewRowsOf(id) ==
  { k \in (req.n0 + 1)..Len(prices) : prices[k].asset_id = id }

\* C16: a poll cycle returns its counts whatever fails, with every asset
\* fetched exactly once, ok + fail the number of assets, one row added for
\* each asset counted ok and none for an asset counted fail
C16_PollCycle ==
  PollFinished =>
    /\ result.kind = "ok"
    /\ result.data.kind = "poll"
    /\ result.data.ok + result.data.fail = Len(assets)
    /\ result.data.ok = Cardinality({ k \in 1..Len(attempts) : attempts[k].ok })
    /\ Len(prices) = req.n0 + result.data.ok
    /\ \A i \in 1..Len(assets) :
         /\ Cardinality(AttemptsOf(assets[i].id)) = 1
         /\ \A k \in AttemptsOf(assets[i].id) :
              Cardinality(NewRowsOf(assets[i].id))
                = IF attempts[k].ok THEN 1 ELSE 0

\* a cycle not in table order in which a failure came before a success
C16_Witness ==
  /\ PollFinished
  /\ result.kind = "ok"
  /\ attempts[1].asset_id # assets[1].id
  /\ \E j, k \in 1..Len(attempts) :
       j < k /\ ~attempts[j].ok /\ attempts[k].ok
  /\ result.data.ok >= 1 /\ result.data.fail >= 2

\* ------------------------------------------------------------------
\* portfolio_overview
\* ------------------------------------------------------------------
OverviewFinished == req.fn = "portfolio_overview" /\ Finished

\* the currency the snapshot was asked in
Base == Upper(Or(req.base_ccy, BASE_CCY))

\* the holdings the request is about
InScope ==
  { i \in 1..Len(holdings) :
      req.user_id = NoUser \/ holdings[i].user_id = req.user_id[1] }

\* a price of the asset in the snapshot's currency is stored
Priced(asset_id) ==
  \E k \in 1..Len(prices) :
    prices[k].asset_id = asset_id /\ prices[k].base_ccy = Base

RECURSIVE SumValues(_)
SumValues(items) ==
  IF items = <<>> THEN <<0, 1>>
  ELSE RatAdd(SumValues(Tail(items)), Head(items).value)

\* the snapshot's lines are holdings, each at most once, valued at
\* quantity * last price, and the total is their sum
LinesAddUp ==
  LET items == result.data.items
  IN  /\ \A i, j \in 1..Len(items) :
           items[i].holding_id = items[j].holding_id => i = j
      /\ \A i \in 1..Len(items) :
           /\ \E j \in InScope :
                /\ holdings[j].id = items[i].holding_id
                /\ holdings[j].qty = items[i].qty
           /\ RatEq(items[i].value, RatMul(items[i].qty, items[i].last_px))
      /\ RatEq(result.data.total, SumValues(items))

\* C13: the snapshot is returned whatever fails to resolve, its lines are
\* exactly the in-scope holdings whose asset has a price, stored or fetched
\* on demand, each valued at quantity * last price, and its total is the sum
\* of those lines
C13_LinesArePricedHoldings ==
  OverviewFinished =>
    /\ result.kind = "ok"
    /\ result.data.kind = "overview"
    /\ LinesAddUp
    /\ { result.data.items[i].holding_id :
           i \in 1..Len(result.data.items) }
         = { holdings[j].id :
               j \in { k \in InScope : Priced(holdings[k].asset_id) } }

\* the asset of the holding a line was made from
AssetOfLine(ln) ==
  holdings[CHOOSE j \in 1..Len(holdings) :
             holdings[j].id = ln.holding_id].asset_id

\* the rows among the first n that are of the asset and in the snapshot's
\* currency
StoredFor(asset_id, n) ==
  { k \in 1..n :
      prices[k].asset_id = asset_id /\ prices[k].base_ccy = Base }

\* those of the greatest timestamp
NewestFor(asset_id) ==
  { k \in StoredFor(asset_id, Len(prices)) :
      \A j \in StoredFor(asset_id, Len(prices)) :
        prices[j].ts <= prices[k].ts }

\* C14: the last price of a line is the price of the stored row of the
\* greatest timestamp among the rows of the line's asset in the snapshot's
\* currency, and no provider is asked for an asset that had such a row
C14_LatestStoredPrice ==
  OverviewFinished /\ result.kind = "ok" =>
    /\ \A i \in 1..Len(result.data.items) :
         \E k \in NewestFor(AssetOfLine(result.data.items[i])) :
           result.data.items[i].last_px = prices[k].price
    /\ \A a \in 1..Len(attempts) :
         StoredFor(attempts[a].asset_id, req.n0) = {}

\* half a BTC at a latest stored 20000 GBP, after an older row at 30 GBP:
\* one line of value 10000, total 10000, and no fetch for BTC
C14_Witness ==
  /\ OverviewFinished
  /\ result.kind = "ok"
  /\ Base = <<"G","B","P">>
  /\ Len(result.data.items) = 1
  /\ result.data.items[1].symbol = <<"B","T","C">>
  /\ result.data.items[1].qty = <<1, 2>>
  /\ result.data.items[1].last_px = <<20000, 1>>
  /\ RatEq(result.data.items[1].value, <<10000, 1>>)
  /\ RatEq(result.data.total, <<10000, 1>>)
  /\ \E j, k \in StoredFor(1, req.n0) :
       /\ prices[j].ts < prices[k].ts
       /\ prices[j].price = <<30, 1>>
       /\ prices[k].price = <<20000, 1>>
  /\ \A a \in 1..Len(attempts) : attempts[a].asset_id # 1

\* the holdings of user u, in table order
OwnHoldings(u) == SelectSeq(holdings, LAMBDA h : h.user_id = u)

\* what the unscoped snapshot gathers from a table of holdings
Unscoped(table) == SelectSeq(table, LAMBDA h : in_scope(h, NoUser))

\* C15: a snapshot scoped to a user works on exactly what the unscoped
\* snapshot gathers from a store that has only that user's holdings, and no
\* line, part of the total, fetch or stored row derives from a holding of
\* another user
C15_ScopingIsFilter ==
  (req.fn = "portfolio_overview" /\ req.user_id # NoUser) =>
    LET own  == OwnHoldings(req.user_id[1])
        ids  == { own[i].asset_id : i \in 1..Len(own) }
    IN  /\ \A i \in 1..Len(stack) :
             (stack[i].fn = "portfolio_overview" /\ stack[i].pc # "start") =>
               /\ stack[i].holds = Unscoped(own)
               /\ stack[i].am
                    = { assets[j] : j \in { k \in 1..Len(assets) :
                                              assets[k].id \in ids } }
        /\ \A a \in 1..Len(attempts) : attempts[a].asset_id \in ids
        /\ \A k \in (req.n0 + 1)..Len(prices) : prices[k].asset_id \in ids
        /\ (Finished /\ result.kind = "ok") =>
             /\ \A i \in 1..Len(result.data.items) :
                  \E j \in 1..Len(own) :
                    /\ own[j].id = result.data.items[i].holding_id
                    /\ own[j].qty = result.data.items[i].qty
                    /\ own[j].account = result.data.items[i].account
             /\ RatEq(result.data.total, SumValues(result.data.items))

\* a snapshot of user 1 with a line for BTC, which user 2 holds too, after an
\* on-demand fetch
C15_Witness ==
  /\ OverviewFinished
  /\ result.kind = "ok"
  /\ req.user_id = <<1>>
  /\ \E i \in 1..Len(result.data.items) :
       /\ result.data.items[i].holding_id = 1
       /\ \E j \in 1..Len(holdings) :
            /\ holdings[j].user_id = 2
            /\ holdings[j].asset_id = AssetOfLine(result.data.items[i])
  /\ attempts # <<>>

\* the assets of the holdings the request is about
ScopeAssets == { holdings[j].asset_id : j \in InScope }

\* the lines made from holdings of the asset
LinesOf(asset_id) ==
  { i \in 1..Len(result.data.items) :
      AssetOfLine(result.data.items[i]) = asset_id }

\* C21: within one snapshot an asset without a stored price in the
\* snapshot's currency is fetched on demand exactly once; when the fetch
\* succeeds its new row prices the asset's lines, and when it fails the
\* asset has no line and nothing more is tried
C21_SingleOnDemandAttempt ==
  (OverviewFinished /\ result.kind = "ok") =>
    \A a \in ScopeAssets :
      StoredFor(a, req.n0) = {} =>
        /\ Cardinality(AttemptsOf(a)) = 1
        /\ \A k \in AttemptsOf(a) :
             IF attempts[k].ok
             THEN /\ Cardinality(NewRowsOf(a)) = 1
                  /\ \A j \in InScope :
                       holdings[j].asset_id = a =>
                         \E i \in LinesOf(a) :
                           /\ result.data.items[i].holding_id = holdings[j].id
                           /\ \E r \in NewRowsOf(a) :
                                result.data.items[i].last_px = prices[r].price
             ELSE NewRowsOf(a) = {} /\ LinesOf(a) = {}

\* where the holding of a line stands in the order the holdings were
\* retrieved
RetrievedAt(ln) ==
  CHOOSE j \in 1..Len(holdings) : holdings[j].id = ln.holding_id

\* C22: the lines of a snapshot are in non-increasing order of value, and
\* lines of equal value are in the order their holdings were retrieved
C22_SortedStable ==
  (OverviewFinished /\ result.kind = "ok") =>
    \A i, j \in 1..Len(result.data.items) :
      i < j =>
        /\ RatGeq(result.data.items[i].value, result.data.items[j].value)
        /\ RatEq(result.data.items[i].value, result.data.items[j].value)
             => RetrievedAt(result.data.items[i])
                  < RetrievedAt(result.data.items[j])

\* a snapshot of all holdings where the sort moved lines: three lines of
\* equal value ahead of a smaller line whose holding was retrieved first
C22_Witness ==
  /\ OverviewFinished
  /\ result.kind = "ok"
  /\ Len(result.data.items) = 4
  /\ result.data.items[4].holding_id = 1
  /\ ~RatGeq(result.data.items[4].value, result.data.items[3].value)
  /\ \A i \in 1..3 :
       RatEq(result.data.items[i].value, result.data.items[1].value)

\* ------------------------------------------------------------------
\* a failed catalogue fetch
\* ------------------------------------------------------------------
\* the catalogue fetch of caller t fails in this step
FetchFails(t) == cg[t].pc = "fetch" /\ cg'[t].pc = "done"

\* the pcs at which a caller holds the lock
LockedPcs == {"fetch", "store_sym", "store_name"}

SameRebuild(sym, name) ==
  \E coins \in Catalogues :
    LET m == cg_build(coins, Len(coins))
    IN  sym = SomeDict(m.sym_map) /\ name = SomeDict(m.name_map)

\* every read of caller t saw the dicts of one rebuild
OneSnapshot(t) ==
  \A i, j \in 1..Len(cg[t].reads) :
    LET a == cg[t].reads[i]
        b == cg[t].reads[j]
    IN  /\ a.map = b.map => a.val = b.val
        /\ (a.map = "sym" /\ b.map = "name") => SameRebuild(a.val, b.val)

\* a lookup that consulted the index ended with an id or as unknown
EndsKnownOrUnknown(t) ==
  (cg[t].pc = "done" /\ cg[t].reads # <<>> /\ cg[t].kind = "error")
    => cg[t].err = "Unknown crypto symbol/name/id"

\* C26: the dicts one lookup consults are those of one rebuild, also when
\* another caller replaces the index meanwhile, and the lookup ends with an
\* id or with the unknown-identifier error
C26_ConsistentSnapshot ==
  \A t \in Threads : OneSnapshot(t) /\ EndsKnownOrUnknown(t)

\* ------------------------------------------------------------------
\* the price log
\* ------------------------------------------------------------------
\* this step records a price fetch that succeeded
PollSucceeds ==
  /\ Len(attempts') = Len(attempts) + 1
  /\ attempts'[Len(attempts')].ok

\* C23: whatever the operation, every step keeps the rows of `price` as
\* they are and in place, and adds one row exactly when a poll of an asset
\* succeeds, for that asset
C23_AppendOnly ==
  [][/\ Len(prices') >= Len(prices)
     /\ SubSeq(prices', 1, Len(prices)) = prices
     /\ Len(prices') <= Len(prices) + 1
     /\ Len(prices') = Len(prices) + 1 <=> PollSucceeds
     /\ PollSucceeds =>
          prices'[Len(prices')].asset_id
            = attempts'[Len(attempts')].asset_id]_vars

\* an asset that had prices has been deleted, and its rows are still there
C23_Witness ==
  /\ req.fn = "delete_asset"
  /\ Finished
  /\ result.kind = "ok"
  /\ result.data.n = 1
  /\ Len(prices) = req.n0
  /\ \E r \in 1..Len(prices) :
       \A i \in 1..Len(assets) : assets[i].id # prices[r].asset_id

\* ------------------------------------------------------------------
\* asset symbols
\* ------------------------------------------------------------------
\* no two stored assets have symbols equal ignoring case
UniqueSymbols ==
  \A i, j \in 1..Len(assets) :
    Upper(assets[i].symbol) = Upper(assets[j].symbol) => i = j

\* C24: after seeding and any interleaving of create_asset requests no two
\* stored assets have symbols equal ignoring case, and a create that found
\* an asset of its symbol reports an error and has stored nothing
C24_UniqueSymbols ==
  /\ UniqueSymbols
  /\ \A t \in Threads :
       (creating[t].pc = "done" /\ creating[t].err = "already exists")
         => creating[t].kind = "error" /\ creating[t].asset_id = 0

====
